---- MODULE Spec2Model ----
(***************************************************************************)
(* Model of the Binance/CoinGecko end-of-day collector                    *)
(* (src/src/collector.py, src/src/binance_eod_collector/).                *)
(*                                                                         *)
(* Text is modelled as a sequence of one-character strings, so that       *)
(* suffix tests, upper-casing and the lexicographic order used by         *)
(* sort_values are computed, not assumed.  A DataFrame is a sequence of   *)
(* row records; a CSV file is the sequence of its rows as text.           *)
(***************************************************************************)
EXTENDS Integers, Sequences, FiniteSets, TLC

VARIABLES
    csv,        \* the destination file all_pairs_eod.csv: [exists, rows]
    last,       \* the latest save_to_csv call: [mode, df, before]
    enrich,     \* the enrichment call: its inputs, then its outcome
    market,     \* the get_coingecko_market_data call: its inputs, then its outcome
    resolver,   \* a symbol resolver: its caches, the clock, the calls made on it
    client,     \* a CoinGecko client: its call log, the clock, the requests sent
    run,        \* a collect_historical_data run: its position and its lists
    klines,     \* the get_historical_klines call: its inputs, then its outcome
    v2          \* a CryptoDataCollector process: its files, its runs, its position

vars == <<csv, last, enrich, market, resolver, client, run, klines, v2>>

(***************************************************************************)
(* Text                                                                    *)
(***************************************************************************)

\* The characters in code-point order (upper case sorts before lower case).
Chars ==
    << "A","B","C","D","E","F","G","H","I","J","K","L","M",
       "N","O","P","Q","R","S","T","U","V","W","X","Y","Z",
       "a","b","c","d","e","f","g","h","i","j","k","l","m",
       "n","o","p","q","r","s","t","u","v","w","x","y","z" >>

Ord(c) == CHOOSE i \in 1..Len(Chars) : Chars[i] = c

\* str.upper() on one character, and on a text.
UpperChar(c) == IF Ord(c) > Len(Chars) \div 2 THEN Chars[Ord(c) - Len(Chars) \div 2] ELSE c

Upper(s) == [i \in 1..Len(s) |-> UpperChar(s[i])]

\* Python's < on str: lexicographic by code point, a proper prefix is smaller.
RECURSIVE StrLess(_, _)
StrLess(a, b) ==
    IF b = <<>> THEN FALSE
    ELSE IF a = <<>> THEN TRUE
    ELSE IF a[1] # b[1] THEN Ord(a[1]) < Ord(b[1])
    ELSE StrLess(Tail(a), Tail(b))

\* str.endswith
EndsWith(s, q) ==
    /\ Len(q) <= Len(s)
    /\ SubSeq(s, Len(s) - Len(q) + 1, Len(s)) = q

BTCUSDT  == <<"B","T","C","U","S","D","T">>
ETHUSDT  == <<"E","T","H","U","S","D","T">>
FAKEUSDT == <<"F","A","K","E","U","S","D","T">>

\* An Optional value: Python's None, or a value that is present.
None == [some |-> FALSE]
Some(v) == [some |-> TRUE, v |-> v]

(***************************************************************************)
(* Sequences as pandas uses them                                           *)
(***************************************************************************)

Min(a, b) == IF a <= b THEN a ELSE b

\* All sequences over S of length at most n.
SeqsUpTo(S, n) == UNION {[1..k -> S] : k \in 0..n}

\* The positions 1..n, in order.
Positions(n) == [i \in 1..n |-> i]

\* The elements of s at the positions idx, in that order.
Take(s, idx) == [k \in 1..Len(idx) |-> s[idx[k]]]

(***************************************************************************)
(* CsvStore: BinanceEODCollector.save_to_csv                               *)
(***************************************************************************)

\* Calendar days (datetime.date), as day numbers, and their CSV text.
DateText ==
    (1 :> "2024-01-01") @@ (2 :> "2024-01-02") @@ (3 :> "2024-01-03") @@ (4 :> "2024-01-04")

\* Prices (float), and their CSV text.
FloatText == (100 :> "100.0") @@ (105 :> "105.0")

\* to_csv writes a date and a float as text.
FormatDate(d) == DateText[d]
FormatFloat(x) == FloatText[x]

\* pd.to_datetime(...).dt.date on the date column read back as text.
ParseDate(t) == CHOOSE d \in DOMAIN DateText : DateText[d] = t

\* read_csv infers the numeric columns.
ParseFloat(t) == CHOOSE x \in DOMAIN FloatText : FloatText[x] = t

\* DataFrame.to_csv(filepath, index=False): the rows, in the frame's order.
to_csv(df) ==
    [exists |-> TRUE,
     rows |-> [i \in 1..Len(df) |->
                 [date |-> FormatDate(df[i].date),
                  symbol |-> df[i].symbol,
                  close |-> FormatFloat(df[i].close)]]]

\* pd.read_csv(filepath): date stays text, the numeric column is parsed.
read_csv(file) ==
    [i \in 1..Len(file.rows) |->
        [date |-> file.rows[i].date,
         symbol |-> file.rows[i].symbol,
         close |-> ParseFloat(file.rows[i].close)]]

\* existing_df['date'] = pd.to_datetime(existing_df['date']).dt.date
to_date_column(df) ==
    [i \in 1..Len(df) |-> [df[i] EXCEPT !.date = ParseDate(df[i].date)]]

SameKey(r, s) == r.date = s.date /\ r.symbol = s.symbol

\* A plausible slip: keep='first'.
drop_duplicates_keep_first(df) ==
    LET keep(i) == \A j \in 1..(i - 1) : ~SameKey(df[i], df[j])
    IN  Take(df, SelectSeq(Positions(Len(df)), keep))

\* drop_duplicates(subset=['date', 'symbol'], keep='last')
drop_duplicates(df) ==
    LET keep(i) == \A j \in (i + 1)..Len(df) : ~SameKey(df[i], df[j])
    IN  Take(df, SelectSeq(Positions(Len(df)), keep))

\* The order of sort_values(['symbol', 'date']).
RowLess(r, s) ==
    IF r.symbol = s.symbol THEN r.date < s.date ELSE StrLess(r.symbol, s.symbol)

\* The place of each row of df in the sorted frame: after the rows that
\* precede it, and after the earlier rows it does not precede (rows with
\* the same key keep their order).
SortRank(df) ==
    [i \in 1..Len(df) |->
        1 + Cardinality({j \in 1..Len(df) :
                            \/ RowLess(df[j], df[i])
                            \/ ~RowLess(df[i], df[j]) /\ j < i})]

\* The rows of df, each at its place rank[i].
Placed(df, rank) == [k \in 1..Len(df) |-> df[CHOOSE i \in 1..Len(df) : rank[i] = k]]

\* A plausible slip: the sort is left out of the merge.
sort_values_omitted(df) == df

\* sort_values(['symbol', 'date'])
sort_values(df) == Placed(df, SortRank(df))

\* A plausible slip: the empty frame is not returned early.
save_to_csv_no_empty_check(file, df, mode) ==
    IF mode = "a" /\ file.exists
    THEN to_csv(sort_values(drop_duplicates(to_date_column(read_csv(file)) \o df)))
    ELSE to_csv(df)

\* save_to_csv(df, mode): the file after the call.
save_to_csv(file, df, mode) ==
    IF df = <<>> THEN file
    ELSE IF mode = "a" /\ file.exists
    THEN to_csv(sort_values(drop_duplicates(to_date_column(read_csv(file)) \o df)))
    ELSE to_csv(df)

Bar(d, s, c) == [date |-> d, symbol |-> s, close |-> c]

\* The bars a caller may pass: two symbols, two days, and one key that comes
\* with two different prices.
StoreBars ==
    {Bar(1, BTCUSDT, 100), Bar(1, BTCUSDT, 105), Bar(2, BTCUSDT, 100), Bar(1, ETHUSDT, 100)}

\* The largest frame passed to save_to_csv.
MaxRows == 2

Frames == SeqsUpTo(StoreBars, MaxRows)

NoFile == [exists |-> FALSE, rows |-> <<>>]

NoCall == [mode |-> "none", df |-> <<>>, before |-> NoFile]

Idle == [pc |-> "idle"]

StoreInit ==
    /\ csv = NoFile
    /\ v2 = Idle
    /\ last = NoCall
    /\ enrich = Idle
    /\ market = Idle
    /\ resolver = Idle
    /\ client = Idle
    /\ run = Idle
    /\ klines = Idle

\* One call of save_to_csv(df, mode=mode).
SaveToCsv ==
    \E df \in Frames, mode \in {"w", "a"} :
        /\ csv' = save_to_csv(csv, df, mode)
        /\ last' = [mode |-> mode, df |-> df, before |-> csv]
        /\ UNCHANGED <<enrich, market, resolver, client, run, klines, v2>>

StoreNext == SaveToCsv

Spec == StoreInit /\ [][StoreNext]_vars

(***************************************************************************)
(* MarketDataFetcher: BinanceEODCollector.get_coingecko_market_data        *)
(*                                                                         *)
(* The provider is [coins, failing]: coins maps each coin id it knows to   *)
(* the coin's /coins/markets object, failing is the set of request         *)
(* numbers (first, second, ...) that end in a RequestException (a network  *)
(* error, or raise_for_status on a non-2xx answer).                        *)
(***************************************************************************)

\* CoinGecko allows up to 250 ids per request.
batch_size == 250

\* dict.get(key): None when the key is absent (a JSON null is None already).
Get(dict, key) == IF key \in DOMAIN dict THEN dict[key] ELSE None

\* The provider's answer to the request number k for the ids of batch: the
\* objects of the coins it knows among them, each once.
Respond(provider, k, batch) ==
    IF k \in provider.failing
    THEN [ok |-> FALSE, data |-> <<>>]
    ELSE LET first(p) == /\ batch[p] \in DOMAIN provider.coins
                         /\ \A q \in 1..(p - 1) : batch[q] # batch[p]
             idx == SelectSeq(Positions(Len(batch)), first)
         IN  [ok |-> TRUE, data |-> [j \in 1..Len(idx) |-> provider.coins[batch[idx[j]]]]]

\* The entry built from one coin object of the response.
market_entry(coin) ==
    [market_cap |-> Get(coin, "market_cap"),
     circulating_supply |-> Get(coin, "circulating_supply"),
     total_supply |-> Get(coin, "total_supply"),
     max_supply |-> Get(coin, "max_supply")]

\* for coin in data: market_data[coin['id']] = {...} -- a later coin with the
\* same id replaces an earlier one, the other entries stay.
store_coins(market_data, data) ==
    LET new == {data[j].id : j \in 1..Len(data)}
        lastOf(id) == CHOOSE j \in 1..Len(data) :
            /\ data[j].id = id
            /\ \A q \in (j + 1)..Len(data) : data[q].id # id
    IN  [id \in DOMAIN market_data \cup new |->
            IF id \in new THEN market_entry(data[lastOf(id)]) ELSE market_data[id]]

\* A plausible slip: the slice takes one id too many.
batch_of_one_too_many(ids, i) == SubSeq(ids, i + 1, Min(i + batch_size + 1, Len(ids)))

\* batch = coingecko_ids[i:i + batch_size]
batch_of(ids, i) == SubSeq(ids, i + 1, Min(i + batch_size, Len(ids)))

\* A plausible slip: the except clause leaves the loop (break, or a re-raise).
after_failed_batch_break(ids, i) == Len(ids)

\* except RequestException: continue -- the loop goes on with the next offset.
after_failed_batch(ids, i) == i + batch_size

\* The loop over range(0, len(coingecko_ids), batch_size) from offset i on;
\* acc is [market_data, requests], requests being the log of the requests sent.
RECURSIVE market_loop(_, _, _, _)
market_loop(ids, i, provider, acc) ==
    IF i >= Len(ids) THEN acc
    ELSE LET batch == batch_of(ids, i)
             k == Len(acc.requests) + 1
             response == Respond(provider, k, batch)
             sent == Append(acc.requests,
                            [i |-> i, ids |-> batch, ok |-> response.ok, data |-> response.data])
         IN  IF response.ok
             THEN market_loop(ids, i + batch_size, provider,
                              [market_data |-> store_coins(acc.market_data, response.data),
                               requests |-> sent])
             ELSE market_loop(ids, after_failed_batch(ids, i), provider,
                              [market_data |-> acc.market_data, requests |-> sent])

\* The empty dict.
EmptyDict == [x \in {} |-> None]

\* get_coingecko_market_data(coingecko_ids): the mapping returned, and the
\* requests it sent.
get_coingecko_market_data(ids, provider) ==
    IF ids = <<>> THEN [market_data |-> EmptyDict, requests |-> <<>>]
    ELSE market_loop(ids, 0, provider, [market_data |-> EmptyDict, requests |-> <<>>])

\* The most batches a call is given ids for.
MaxBatches == 3

\* The id counts around the batch boundaries: 0, 1, 249, 250, 251, ..., 501.
IdCounts ==
    {n \in 0..((MaxBatches - 1) * batch_size + 1) :
        \E b \in 0..(MaxBatches - 1), d \in {-1, 0, 1} : n = b * batch_size + d}

\* The id at position p: all distinct, or (repeat) every id used twice, as when
\* two trading pairs resolve to the same coin.
IdAt(p, repeat) == IF repeat THEN ToString((p + 1) \div 2) ELSE ToString(p)

IdLists == {[p \in 1..n |-> IdAt(p, repeat)] : n \in IdCounts, repeat \in BOOLEAN}

\* The /coins/markets object of a coin with every field present.
FullCoin(id) ==
    [id |-> id, market_cap |-> Some(900), circulating_supply |-> Some(19),
     total_supply |-> Some(21), max_supply |-> Some(21)]

\* The providers: one knowing every id asked for, one knowing every other
\* id, one knowing none; any of the requests may fail.
KnownBy(ids, which) ==
    CASE which = "all" -> {ids[p] : p \in 1..Len(ids)}
      [] which = "odd" -> {ids[p] : p \in {q \in 1..Len(ids) : q % 2 = 1}}
      [] OTHER -> {}

MarketProviders(ids) ==
    {[coins |-> [id \in KnownBy(ids, which) |-> FullCoin(id)], failing |-> f] :
        which \in {"all", "odd", "none"}, f \in SUBSET (1..MaxBatches)}

MarketInit ==
    /\ csv = NoFile
    /\ v2 = Idle
    /\ last = NoCall
    /\ resolver = Idle
    /\ client = Idle
    /\ run = Idle
    /\ klines = Idle
    /\ enrich = Idle
    /\ \E ids \in IdLists : \E provider \in MarketProviders(ids) :
          market = [pc |-> "call", ids |-> ids, provider |-> provider]

\* One call of get_coingecko_market_data(ids).
GetMarketData ==
    /\ market.pc = "call"
    /\ LET out == get_coingecko_market_data(market.ids, market.provider)
       IN  market' = [pc |-> "done", ids |-> market.ids, provider |-> market.provider,
                      market_data |-> out.market_data, requests |-> out.requests]
    /\ UNCHANGED <<csv, last, enrich, resolver, client, run, klines, v2>>

MarketNext == GetMarketData

SpecMarket == MarketInit /\ [][MarketNext]_vars

(***************************************************************************)
(* SymbolResolver: extract_base_symbol, get_coingecko_coins_list and       *)
(* map_binance_to_coingecko of BinanceEODCollector.                        *)
(*                                                                         *)
(* The collector's listing cache is [has_map, coingecko_map, timestamp]:   *)
(* has_map is FALSE while _coingecko_map and _coingecko_map_timestamp are  *)
(* None.  The environment env adds to the market provider the /coins/list  *)
(* answer (listing) and the /coins/list requests that fail (list_failing). *)
(***************************************************************************)

\* Common quote assets on Binance, in the order they are tried.
quote_assets ==
    << <<"U","S","D","T">>, <<"B","U","S","D">>, <<"U","S","D","C">>, <<"B","T","C">>,
       <<"E","T","H">>, <<"B","N","B">>, <<"T","R","X">>, <<"X","R","P">>,
       <<"T","U","S","D">>, <<"P","A","X">>, <<"E","U","R">>, <<"G","B","P">>,
       <<"A","U","D">>, <<"T","R","Y">> >>

\* A plausible slip: the test "if base:" is left out, so a quote asset alone
\* yields an empty base.
extract_base_symbol_empty_base(binance_symbol) ==
    LET hits == {q \in 1..Len(quote_assets) : EndsWith(binance_symbol, quote_assets[q])}
    IN  IF hits = {} THEN None
        ELSE LET q == CHOOSE h \in hits : \A g \in hits : h <= g
             IN  Some(SubSeq(binance_symbol, 1, Len(binance_symbol) - Len(quote_assets[q])))

\* extract_base_symbol(binance_symbol): the base left by the first quote asset
\* of the list that ends the symbol and leaves a non-empty base, else None.
extract_base_symbol(binance_symbol) ==
    LET matches(q) == /\ EndsWith(binance_symbol, quote_assets[q])
                      /\ Len(binance_symbol) > Len(quote_assets[q])
        hits == {q \in 1..Len(quote_assets) : matches(q)}
    IN  IF hits = {} THEN None
        ELSE LET q == CHOOSE h \in hits : \A g \in hits : h <= g
             IN  Some(SubSeq(binance_symbol, 1, Len(binance_symbol) - Len(quote_assets[q])))

\* The cached listing is valid for less than 24 hours.
cache_seconds == 86400

\* symbol_map: upper-cased symbol -> id of the first coin listed with it.
symbol_map(coins) ==
    LET first(sym) == CHOOSE j \in 1..Len(coins) :
            /\ Upper(coins[j].symbol) = sym
            /\ \A q \in 1..(j - 1) : Upper(coins[q].symbol) # sym
    IN  [sym \in {Upper(coins[j].symbol) : j \in 1..Len(coins)} |-> coins[first(sym)].id]

\* get_coingecko_coins_list() at time now, requested being the /coins/list
\* requests sent so far: the mapping returned, the cache after, the requests.
get_coingecko_coins_list(collector, now, env, requested) ==
    IF collector.has_map /\ now - collector.timestamp < cache_seconds
    THEN [map |-> collector.coingecko_map, collector |-> collector, requested |-> requested]
    ELSE IF (requested + 1) \in env.list_failing
    THEN [map |-> EmptyDict, collector |-> collector, requested |-> requested + 1]
    ELSE LET map == symbol_map(env.listing)
         IN  [map |-> map,
              collector |-> [has_map |-> TRUE, coingecko_map |-> map, timestamp |-> now],
              requested |-> requested + 1]

\* map_binance_to_coingecko(binance_symbol): cg_id is the id or None.
map_binance_to_coingecko(binance_symbol, collector, now, env, requested) ==
    LET base_symbol == extract_base_symbol(binance_symbol)
    IN  IF ~base_symbol.some
        THEN [cg_id |-> None, collector |-> collector, requested |-> requested]
        ELSE LET got == get_coingecko_coins_list(collector, now, env, requested)
             IN  [cg_id |-> IF base_symbol.v \in DOMAIN got.map
                            THEN Some(got.map[base_symbol.v]) ELSE None,
                  collector |-> got.collector,
                  requested |-> got.requested]

\* The letters base assets are written with here: those of USDT and BUSD, so
\* that a base can itself end like a quote asset.
BaseLetters == {"T", "U", "S", "D", "B"}

\* The longest base asset written with BaseLetters.
MaxBaseLen == 2

\* The base assets: every text of 1..MaxBaseLen letters, and every quote asset.
BaseTexts ==
    (SeqsUpTo(BaseLetters, MaxBaseLen) \ {<<>>}) \cup {quote_assets[q] : q \in 1..Len(quote_assets)}

\* The symbols extract_base_symbol is called with: each base followed by each
\* quote asset, each base and each quote asset alone, and the empty text.
ExtractSymbols ==
    {b \o quote_assets[q] : b \in BaseTexts, q \in 1..Len(quote_assets)}
        \cup BaseTexts \cup {<<>>}

ExtractInit ==
    /\ csv = NoFile
    /\ v2 = Idle
    /\ last = NoCall
    /\ enrich = Idle
    /\ market = Idle
    /\ client = Idle
    /\ run = Idle
    /\ klines = Idle
    /\ \E symbol \in ExtractSymbols : resolver = [pc |-> "call", symbol |-> symbol]

\* One call of extract_base_symbol(binance_symbol).
ExtractBase ==
    /\ resolver.pc = "call"
    /\ resolver' = [pc |-> "done", symbol |-> resolver.symbol,
                    base |-> extract_base_symbol(resolver.symbol)]
    /\ UNCHANGED <<csv, last, enrich, market, client, run, klines, v2>>

ExtractNext == ExtractBase

SpecExtract == ExtractInit /\ [][ExtractNext]_vars

(***************************************************************************)
(* EnrichmentPipeline: BinanceEODCollector.enrich_with_coingecko_data      *)
(***************************************************************************)

\* df['symbol'].unique(): the symbols in order of first appearance.
unique_symbols(df) ==
    LET first(i) == \A j \in 1..(i - 1) : df[j].symbol # df[i].symbol
        idx == SelectSeq(Positions(Len(df)), first)
    IN  [k \in 1..Len(idx) |-> df[idx[k]].symbol]

\* for symbol in symbols: map it, or append it to skipped_symbols.
\* st is [collector, requested, mapped, skipped]; mapped is the dict
\* symbol_to_coingecko as its items in insertion order.
RECURSIVE map_symbols(_, _, _, _)

\* The body of the loop once the first of symbols is resolved to r:
\* "if cg_id:" notes the mapping, else the symbol is skipped.
RECURSIVE map_symbols_body(_, _, _, _, _)
map_symbols_body(symbols, now, env, st, r) ==
    IF r.cg_id.some /\ r.cg_id.v # ""
    THEN map_symbols(Tail(symbols), now, env,
            [collector |-> r.collector,
             requested |-> r.requested,
             mapped |-> Append(st.mapped, [symbol |-> Head(symbols), cg_id |-> r.cg_id.v]),
             skipped |-> st.skipped])
    ELSE map_symbols(Tail(symbols), now, env,
            [collector |-> r.collector,
             requested |-> r.requested,
             mapped |-> st.mapped,
             skipped |-> Append(st.skipped, Head(symbols))])

map_symbols(symbols, now, env, st) ==
    IF symbols = <<>> THEN st
    ELSE map_symbols_body(symbols, now, env, st,
            map_binance_to_coingecko(Head(symbols), st.collector, now, env, st.requested))

NoFields ==
    [market_cap |-> None, circulating_supply |-> None, total_supply |-> None, max_supply |-> None]

\* The row with the four columns set from fields.
with_fields(row, fields) ==
    [date |-> row.date, symbol |-> row.symbol, close |-> row.close,
     market_cap |-> fields.market_cap,
     circulating_supply |-> fields.circulating_supply,
     total_supply |-> fields.total_supply,
     max_supply |-> fields.max_supply]

\* A plausible slip: the values are set on the first row of each symbol only.
enrich_rows_first_bar_only(df, mapped, market_data) ==
    LET id_of(symbol) == (CHOOSE m \in {mapped[k] : k \in 1..Len(mapped)} : m.symbol = symbol).cg_id
        is_mapped(symbol) == \E k \in 1..Len(mapped) : mapped[k].symbol = symbol
    IN  [i \in 1..Len(df) |->
            IF /\ is_mapped(df[i].symbol)
               /\ id_of(df[i].symbol) \in DOMAIN market_data
               /\ \A j \in 1..(i - 1) : df[j].symbol # df[i].symbol
            THEN with_fields(df[i], market_data[id_of(df[i].symbol)])
            ELSE with_fields(df[i], NoFields)]

\* The four columns start as None; each row whose symbol is mapped to an id
\* with market data gets that coin's values.
enrich_rows(df, mapped, market_data) ==
    LET id_of(symbol) == (CHOOSE m \in {mapped[k] : k \in 1..Len(mapped)} : m.symbol = symbol).cg_id
        is_mapped(symbol) == \E k \in 1..Len(mapped) : mapped[k].symbol = symbol
    IN  [i \in 1..Len(df) |->
            IF is_mapped(df[i].symbol) /\ id_of(df[i].symbol) \in DOMAIN market_data
            THEN with_fields(df[i], market_data[id_of(df[i].symbol)])
            ELSE with_fields(df[i], NoFields)]

\* Series.notna(): a value that is neither None nor NaN.
notna(value) == value.some

\* What enrich_with_coingecko_data returns: the frame and the skipped symbols,
\* together with the mapping, the market data and the requests it went through.
enrich_result(df, skipped, st, got) ==
    [df |-> df, skipped |-> skipped, collector |-> st.collector,
     mapped |-> st.mapped, market_data |-> got.market_data,
     requests |-> got.requests, list_requests |-> st.requested]

\* coingecko_ids = list(symbol_to_coingecko.values())
coingecko_ids_of(mapped) == [k \in 1..Len(mapped) |-> mapped[k].cg_id]

\* filter_enriched taking one symbol out of the set of symbols left out
\* (additional_skipped.pop()) instead of all of them.
filter_enriched_one_of_set(rows, st, got, env) ==
    LET additional == {rows[i].symbol :
                          i \in {j \in 1..Len(rows) : ~notna(rows[j].market_cap)}}
    IN  enrich_result(SelectSeq(rows, LAMBDA r : notna(r.market_cap)),
                      st.skipped \o SubSeq(SelectSeq(env.set_order, LAMBDA x : x \in additional), 1,
                                           Min(1, Cardinality(additional))),
                      st, got)

\* df_filtered = df[df['market_cap'].notna()]; the symbols of the rows left
\* out, as a set, are appended to skipped_symbols. env.set_order is the
\* iteration order of a set of symbols.
filter_enriched(rows, st, got, env) ==
    LET additional == {rows[i].symbol :
                          i \in {j \in 1..Len(rows) : ~notna(rows[j].market_cap)}}
    IN  enrich_result(SelectSeq(rows, LAMBDA r : notna(r.market_cap)),
                      st.skipped \o SelectSeq(env.set_order, LAMBDA x : x \in additional),
                      st, got)

\* The part of enrich_with_coingecko_data after the market data is fetched.
enrich_fetched(df, st, got, env) ==
    filter_enriched(enrich_rows(df, st.mapped, got.market_data), st, got, env)

\* The part of enrich_with_coingecko_data after the symbols are mapped: with
\* nothing mapped it returns an empty frame and every symbol as skipped.
enrich_mapped(df, symbols, st, env) ==
    IF st.mapped = <<>>
    THEN enrich_result(<<>>, symbols, st, [market_data |-> EmptyDict, requests |-> <<>>])
    ELSE enrich_fetched(df, st, get_coingecko_market_data(coingecko_ids_of(st.mapped), env), env)

\* enrich_with_coingecko_data(df) for a collector in the state given, at time
\* now, against the provider env.
enrich_with_coingecko_data(df, collector, now, env) ==
    IF df = <<>>
    THEN enrich_result(<<>>, <<>>,
                       [collector |-> collector, mapped |-> <<>>, requested |-> 0],
                       [market_data |-> EmptyDict, requests |-> <<>>])
    ELSE enrich_mapped(df, unique_symbols(df),
                       map_symbols(unique_symbols(df), now, env,
                                   [collector |-> collector, requested |-> 0,
                                    mapped |-> <<>>, skipped |-> <<>>]),
                       env)

BTCEUR == <<"B","T","C","E","U","R">>

\* The trading pairs of the frames: two that resolve to different coins, one
\* that resolves to the same coin as another, one unknown to the provider.
EnrichSymbols == {BTCUSDT, ETHUSDT, FAKEUSDT, BTCEUR}

\* The longest frame passed to enrich_with_coingecko_data.
MaxBars == 3

\* The frames: the k-th bar of a symbol is its bar of day k, as the klines of
\* one symbol are.
EnrichFrames ==
    {[i \in 1..Len(ss) |->
        [date |-> Cardinality({j \in 1..i : ss[j] = ss[i]}), symbol |-> ss[i], close |-> 100]] :
     ss \in SeqsUpTo(EnrichSymbols, MaxBars)}

\* The /coins/list answer: "btc" is listed twice.
Listing ==
    << [id |-> "bitcoin", symbol |-> <<"b","t","c">>],
       [id |-> "ethereum", symbol |-> <<"e","t","h">>],
       [id |-> "batcat", symbol |-> <<"b","t","c">>] >>

\* What /coins/markets holds for a coin: every field, a null market_cap, no
\* max_supply key, or nothing (the coin is not returned).
CoinObjects(id) ==
    { FullCoin(id),
      [FullCoin(id) EXCEPT !.market_cap = None],
      [id |-> id, market_cap |-> Some(900), circulating_supply |-> Some(19),
       total_supply |-> Some(21)] }

CoinTables ==
    UNION {{t \in [ids -> CoinObjects("bitcoin") \cup CoinObjects("ethereum")] :
                \A id \in ids : t[id].id = id} :
           ids \in SUBSET {"bitcoin", "ethereum"}}

EnrichEnvs ==
    {[coins |-> t, failing |-> f, listing |-> Listing,
      list_failing |-> lf, set_order |-> order] :
        t \in CoinTables,
        f \in {{}, {1}},
        lf \in {{}, {1}},
        order \in { <<BTCEUR, BTCUSDT, ETHUSDT, FAKEUSDT>>,
                    <<FAKEUSDT, ETHUSDT, BTCUSDT, BTCEUR>> }}

\* The listing cache when the call starts: never loaded, or loaded so long
\* before the call (which is at time cache_seconds).
Collectors ==
    {[has_map |-> FALSE, coingecko_map |-> EmptyDict, timestamp |-> 0]} \cup
    {[has_map |-> TRUE, coingecko_map |-> symbol_map(Listing), timestamp |-> t] :
        t \in {0, 1}}

EnrichInit ==
    /\ csv = NoFile
    /\ v2 = Idle
    /\ last = NoCall
    /\ market = Idle
    /\ resolver = Idle
    /\ client = Idle
    /\ run = Idle
    /\ klines = Idle
    /\ \E df \in EnrichFrames, collector \in Collectors, env \in EnrichEnvs :
          enrich = [pc |-> "call", bars |-> df, collector |-> collector,
                    now |-> cache_seconds, env |-> env]

\* One call of enrich_with_coingecko_data(df).
Enrich ==
    /\ enrich.pc = "call"
    /\ LET out == enrich_with_coingecko_data(enrich.bars, enrich.collector, enrich.now, enrich.env)
       IN  enrich' = [pc |-> "done", bars |-> enrich.bars, collector |-> out.collector,
                      now |-> enrich.now, env |-> enrich.env, out |-> out]
    /\ UNCHANGED <<csv, last, market, resolver, client, run, klines, v2>>

EnrichNext == Enrich

SpecEnrich == EnrichInit /\ [][EnrichNext]_vars

\* A collector that has not loaded the listing yet.
NewCollector == [has_map |-> FALSE, coingecko_map |-> EmptyDict, timestamp |-> 0]

\* The calls that are run a second time to compare the results: by a new
\* collector, against a provider whose /coins/markets answers and whose
\* first /coins/list answer may fail or not.
RerunInit ==
    /\ csv = NoFile
    /\ v2 = Idle
    /\ last = NoCall
    /\ market = Idle
    /\ resolver = Idle
    /\ client = Idle
    /\ run = Idle
    /\ klines = Idle
    /\ \E df \in EnrichFrames, env \in EnrichEnvs :
          /\ env.failing = {}
          /\ env.set_order = <<BTCEUR, BTCUSDT, ETHUSDT, FAKEUSDT>>
          /\ enrich = [pc |-> "call", bars |-> df, collector |-> NewCollector,
                       now |-> cache_seconds, env |-> env]

SpecRerun == RerunInit /\ [][EnrichNext]_vars

(***************************************************************************)
(* SymbolResolver of CryptoDataCollector (crypto_collector_v2.py):         *)
(* get_coingecko_coins_list and map_binance_to_coingecko.                  *)
(*                                                                         *)
(* symbol_mapping is the collector's cache base asset -> id; symbol_to_id  *)
(* is the map built from the latest /coins/list answer, which the callers  *)
(* hold and pass to map_binance_to_coingecko.                              *)
(***************************************************************************)

\* str.lower() on one character, and on a text.
LowerChar(c) == IF Ord(c) <= Len(Chars) \div 2 THEN Chars[Ord(c) + Len(Chars) \div 2] ELSE c

Lower(s) == [i \in 1..Len(s) |-> LowerChar(s[i])]

\* dict[key] = value
Put(dict, key, value) == [x \in DOMAIN dict \cup {key} |-> IF x = key THEN value ELSE dict[x]]

BTC == <<"B","T","C">>
BNB == <<"B","N","B">>
WBTC == <<"W","B","T","C">>
WETH == <<"W","E","T","H">>
SHIB == <<"S","H","I","B">>
DOGE == <<"D","O","G","E">>
MATIC == <<"M","A","T","I","C">>

\* The table of special cases in map_binance_to_coingecko.
special_mappings ==
    [b \in {BNB, WBTC, WETH, SHIB, DOGE, MATIC} |->
        CASE b = BNB -> "binancecoin"
          [] b = WBTC -> "wrapped-bitcoin"
          [] b = WETH -> "weth"
          [] b = SHIB -> "shiba-inu"
          [] b = DOGE -> "dogecoin"
          [] b = MATIC -> "matic-network"]

\* for coin in coins: the first coin of a symbol is stored, and a later coin
\* whose name equals the symbol, case aside, replaces what is stored.
RECURSIVE v2_symbol_to_id(_, _)
v2_symbol_to_id(coins, symbol_to_id) ==
    IF coins = <<>> THEN symbol_to_id
    ELSE v2_symbol_to_id(Tail(coins),
            IF Upper(Head(coins).symbol) \notin DOMAIN symbol_to_id
            THEN Put(symbol_to_id, Upper(Head(coins).symbol), Head(coins).id)
            ELSE IF Lower(Head(coins).name) = Lower(Upper(Head(coins).symbol))
            THEN Put(symbol_to_id, Upper(Head(coins).symbol), Head(coins).id)
            ELSE symbol_to_id)

\* get_coingecko_coins_list() of crypto_collector_v2.py for the answer
\* response = [ok, coins]: any exception gives the empty map.
v2_get_coingecko_coins_list(response) ==
    IF response.ok THEN v2_symbol_to_id(response.coins, EmptyDict) ELSE EmptyDict

\* A plausible slip: an id found in the listing is returned without being
\* stored in the cache.
v2_map_listing_not_cached(base_asset, symbol_to_id, symbol_mapping) ==
    IF base_asset \in DOMAIN symbol_mapping
    THEN [id |-> Some(symbol_mapping[base_asset]), symbol_mapping |-> symbol_mapping]
    ELSE IF base_asset \in DOMAIN symbol_to_id
    THEN [id |-> Some(symbol_to_id[base_asset]), symbol_mapping |-> symbol_mapping]
    ELSE IF base_asset \in DOMAIN special_mappings
    THEN [id |-> Some(special_mappings[base_asset]),
          symbol_mapping |-> Put(symbol_mapping, base_asset, special_mappings[base_asset])]
    ELSE [id |-> None, symbol_mapping |-> symbol_mapping]

\* map_binance_to_coingecko(base_asset, symbol_to_id) of crypto_collector_v2.py
\* on a collector whose cache is symbol_mapping: the id returned (or None) and
\* the cache after.
v2_map_binance_to_coingecko(base_asset, symbol_to_id, symbol_mapping) ==
    IF base_asset \in DOMAIN symbol_mapping
    THEN [id |-> Some(symbol_mapping[base_asset]), symbol_mapping |-> symbol_mapping]
    ELSE IF base_asset \in DOMAIN symbol_to_id
    THEN [id |-> Some(symbol_to_id[base_asset]),
          symbol_mapping |-> Put(symbol_mapping, base_asset, symbol_to_id[base_asset])]
    ELSE IF base_asset \in DOMAIN special_mappings
    THEN [id |-> Some(special_mappings[base_asset]),
          symbol_mapping |-> Put(symbol_mapping, base_asset, special_mappings[base_asset])]
    ELSE [id |-> None, symbol_mapping |-> symbol_mapping]

\* Coins a /coins/list answer can hold: three with the symbol btc, of which
\* two are named like the symbol, and one with the symbol bnb that is not
\* the coin of the special table.
ListedCoins ==
    { [id |-> "bitcoin", symbol |-> <<"b","t","c">>, name |-> <<"B","i","t","c","o","i","n">>],
      [id |-> "batcat", symbol |-> <<"b","t","c">>, name |-> <<"B","T","C">>],
      [id |-> "btc-clone", symbol |-> <<"B","T","C">>, name |-> <<"b","t","c">>],
      [id |-> "oec-binance-coin", symbol |-> <<"b","n","b">>, name |-> <<"O","E","C">>] }

\* The most coins of a /coins/list answer.
MaxListing == 2

\* The /coins/list answers.
AllListings == SeqsUpTo(ListedCoins, MaxListing)

\* The most calls made on one resolver.
MaxCalls == 3

\* The base assets resolved: listed only, listed and special, special only,
\* neither.
ResolvedBases == {BTC, BNB, DOGE, <<"F","A","K","E">>}

ResolverV2Init ==
    /\ csv = NoFile
    /\ v2 = Idle
    /\ last = NoCall
    /\ enrich = Idle
    /\ market = Idle
    /\ client = Idle
    /\ run = Idle
    /\ klines = Idle
    /\ resolver = [pc |-> "v2", symbol_mapping |-> EmptyDict, symbol_to_id |-> EmptyDict,
                   fetches |-> 0, calls |-> <<>>]

\* symbol_to_id = self.get_coingecko_coins_list(), as collect_historical_data
\* and collect_daily_update do, for any answer of the provider.
V2GetCoinsList ==
    /\ resolver.pc = "v2"
    /\ resolver.fetches + Len(resolver.calls) < MaxCalls
    /\ \E coins \in AllListings, ok \in BOOLEAN :
          resolver' = [resolver EXCEPT
                          !.symbol_to_id = v2_get_coingecko_coins_list([ok |-> ok, coins |-> coins]),
                          !.fetches = @ + 1]
    /\ UNCHANGED <<csv, last, enrich, market, client, run, klines, v2>>

\* One call of map_binance_to_coingecko(base_asset, symbol_to_id); the call is
\* logged with the cache and the listing map it found.
V2Map ==
    /\ resolver.pc = "v2"
    /\ resolver.fetches + Len(resolver.calls) < MaxCalls
    /\ \E base_asset \in ResolvedBases :
          LET out == v2_map_binance_to_coingecko(base_asset, resolver.symbol_to_id,
                                                 resolver.symbol_mapping)
          IN  resolver' = [resolver EXCEPT
                              !.symbol_mapping = out.symbol_mapping,
                              !.calls = Append(@, [base_asset |-> base_asset, id |-> out.id,
                                                   cache |-> resolver.symbol_mapping,
                                                   symbol_to_id |-> resolver.symbol_to_id,
                                                   fetches |-> resolver.fetches])]
    /\ UNCHANGED <<csv, last, enrich, market, client, run, klines, v2>>

ResolverV2Next == V2GetCoinsList \/ V2Map

SpecResolverV2 == ResolverV2Init /\ [][ResolverV2Next]_vars

(***************************************************************************)
(* SymbolResolver of BinanceEODCollector over time: calls of               *)
(* map_binance_to_coingecko and get_coingecko_coins_list on one collector, *)
(* the clock advancing and the provider's listing changing between them.   *)
(***************************************************************************)

\* The trading pairs resolved: two of the same base asset.
ResolverSymbols == {BTCUSDT, BTCEUR}

\* The /coins/list answers over time: of the two coins listed as btc, none,
\* one, or both in either order.
ResolverListings == SeqsUpTo({c \in ListedCoins : c.id \in {"bitcoin", "batcat"}}, MaxListing)

\* The instants of the clock, in seconds: the start, and just before and at
\* 24 hours after it.
TimePoints == {0, cache_seconds - 1, cache_seconds}

\* What the provider does with a /coins/list request sent as request number
\* k: it fails, or it answers with coins.
ListingEnv(coins, fails, k) ==
    [listing |-> coins, list_failing |-> IF fails THEN {k} ELSE {}]

\* The log of /coins/list requests after a call that started with before
\* requests sent and ended with after: a request sent is logged with its time
\* and its answer.
LogRequests(log, before, after, now, fails, coins) ==
    IF after > before
    THEN Append(log, [now |-> now, ok |-> ~fails, coins |-> IF fails THEN <<>> ELSE coins])
    ELSE log

ResolverInit ==
    /\ csv = NoFile
    /\ v2 = Idle
    /\ last = NoCall
    /\ enrich = Idle
    /\ market = Idle
    /\ client = Idle
    /\ run = Idle
    /\ klines = Idle
    /\ resolver = [pc |-> "v1",
                   collector |-> [has_map |-> FALSE, coingecko_map |-> EmptyDict, timestamp |-> 0],
                   now |-> 0, calls |-> <<>>, requests |-> <<>>]

\* Time passes.
ResolverTick ==
    /\ resolver.pc = "v1"
    /\ \E t \in TimePoints :
          /\ t > resolver.now
          /\ resolver' = [resolver EXCEPT !.now = t]
    /\ UNCHANGED <<csv, last, enrich, market, client, run, klines, v2>>

\* One call of map_binance_to_coingecko(binance_symbol), whatever the
\* provider would answer to a listing request now.
ResolverMap ==
    /\ resolver.pc = "v1"
    /\ Len(resolver.calls) < MaxCalls
    /\ \E binance_symbol \in ResolverSymbols, coins \in ResolverListings, fails \in BOOLEAN :
          LET sent == Len(resolver.requests)
              out == map_binance_to_coingecko(binance_symbol, resolver.collector, resolver.now,
                                              ListingEnv(coins, fails, sent + 1), sent)
          IN  resolver' = [resolver EXCEPT
                  !.collector = out.collector,
                  !.calls = Append(@, [symbol |-> binance_symbol,
                                       base |-> extract_base_symbol(binance_symbol),
                                       id |-> out.cg_id,
                                       now |-> resolver.now,
                                       requests |-> out.requested - sent]),
                  !.requests = LogRequests(@, sent, out.requested, resolver.now, fails, coins)]
    /\ UNCHANGED <<csv, last, enrich, market, client, run, klines, v2>>

\* One call of get_coingecko_coins_list() by itself.
ResolverGetCoinsList ==
    /\ resolver.pc = "v1"
    /\ Len(resolver.calls) < MaxCalls
    /\ \E coins \in ResolverListings, fails \in BOOLEAN :
          LET sent == Len(resolver.requests)
              out == get_coingecko_coins_list(resolver.collector, resolver.now,
                                              ListingEnv(coins, fails, sent + 1), sent)
          IN  resolver' = [resolver EXCEPT
                  !.collector = out.collector,
                  !.calls = Append(@, [symbol |-> <<>>, base |-> None, id |-> None,
                                       now |-> resolver.now,
                                       requests |-> out.requested - sent]),
                  !.requests = LogRequests(@, sent, out.requested, resolver.now, fails, coins)]
    /\ UNCHANGED <<csv, last, enrich, market, client, run, klines, v2>>

ResolverNext == ResolverTick \/ ResolverMap \/ ResolverGetCoinsList

SpecResolver == ResolverInit /\ [][ResolverNext]_vars

(***************************************************************************)
(* CoinGecko client of CryptoDataCollector (crypto_collector_v2.py):       *)
(* rate_limit_coingecko, and the requests of get_coingecko_coins_list and  *)
(* get_historical_data that follow it.                                     *)
(*                                                                         *)
(* The clock counts seconds.  requests is the log of the times at which a  *)
(* request was sent; chart is the get_historical_data call in progress or  *)
(* last finished: the requests sent for it and the backoffs slept.         *)
(***************************************************************************)

\* self.max_calls_per_minute
max_calls_per_minute == 30

\* The length in seconds of the window of rate_limit_coingecko.
rate_window == 60

\* time.sleep(60) after a 429 answer.
backoff_seconds == 60

\* rate_limit_coingecko() called at time now: the call log after it, and the
\* time at which it returns (after the sleep, when it sleeps).
rate_limit_coingecko(coingecko_calls, now) ==
    LET recent == SelectSeq(coingecko_calls, LAMBDA t : now - t < rate_window)
    IN  IF Len(recent) >= max_calls_per_minute
        THEN [coingecko_calls |-> <<now>>,
              now |-> now + (rate_window - (now - recent[1]) + 1)]
        ELSE [coingecko_calls |-> Append(recent, now), now |-> now]

\* What the provider does with a request.
Answers == {"ok", "empty", "429", "http_error", "exception"}

\* What get_historical_data does after the answer to its request: on 429 it
\* sleeps and calls itself again, on data it returns the frame, otherwise it
\* returns an empty frame.
after_answer(answer) ==
    CASE answer = "429" -> [retry |-> TRUE, result |-> "none"]
      [] answer = "ok" -> [retry |-> FALSE, result |-> "frame"]
      [] OTHER -> [retry |-> FALSE, result |-> "empty"]

\* The most requests sent by one client.
MaxRequests == 33

\* The latest instant a call starts at.
MaxClock == 130

\* The instants the clock is advanced to between calls.
ClientTimes == {rate_window - 1, rate_window}

NoChart == [active |-> FALSE, attempts |-> 0, backoffs |-> 0, result |-> "none"]

ClientInit ==
    /\ csv = NoFile
    /\ v2 = Idle
    /\ last = NoCall
    /\ enrich = Idle
    /\ market = Idle
    /\ resolver = Idle
    /\ run = Idle
    /\ klines = Idle
    /\ client = [pc |-> "v2", now |-> 0, coingecko_calls |-> <<>>, requests |-> <<>>,
                 chart |-> NoChart]

\* Time passes between two calls.
ClientTick ==
    /\ client.pc = "v2"
    /\ \E t \in ClientTimes :
          /\ t > client.now
          /\ client' = [client EXCEPT !.now = t]
    /\ UNCHANGED <<csv, last, enrich, market, resolver, run, klines, v2>>

\* get_coingecko_coins_list(): rate_limit_coingecko(), then the request.
ClientGetCoinsList ==
    /\ client.pc = "v2"
    /\ ~client.chart.active
    /\ Len(client.requests) < MaxRequests
    /\ client.now <= MaxClock
    /\ LET limited == rate_limit_coingecko(client.coingecko_calls, client.now)
       IN  client' = [client EXCEPT
                         !.now = limited.now,
                         !.coingecko_calls = limited.coingecko_calls,
                         !.requests = Append(@, limited.now)]
    /\ UNCHANGED <<csv, last, enrich, market, resolver, run, klines, v2>>

\* get_historical_data(coingecko_id), one activation: rate_limit_coingecko(),
\* the request, and what follows the answer. On 429 the activation sleeps and
\* calls get_historical_data again, which is the next step of this action.
ClientGetHistoricalData ==
    /\ client.pc = "v2"
    /\ Len(client.requests) < MaxRequests
    /\ client.now <= MaxClock
    /\ \E answer \in Answers :
          LET limited == rate_limit_coingecko(client.coingecko_calls, client.now)
              attempts == IF client.chart.active THEN client.chart.attempts + 1 ELSE 1
              backoffs == IF client.chart.active THEN client.chart.backoffs ELSE 0
          IN  client' = [client EXCEPT
                  !.now = IF after_answer(answer).retry
                          THEN limited.now + backoff_seconds ELSE limited.now,
                  !.coingecko_calls = limited.coingecko_calls,
                  !.requests = Append(@, limited.now),
                  !.chart = [active |-> after_answer(answer).retry,
                             attempts |-> attempts,
                             backoffs |-> IF after_answer(answer).retry
                                          THEN backoffs + 1 ELSE backoffs,
                             result |-> after_answer(answer).result]]
    /\ UNCHANGED <<csv, last, enrich, market, resolver, run, klines, v2>>

ClientNext == ClientTick \/ ClientGetCoinsList \/ ClientGetHistoricalData

SpecClient == ClientInit /\ [][ClientNext]_vars

(***************************************************************************)
(* KlineFetcher: BinanceEODCollector.get_historical_klines                 *)
(*                                                                         *)
(* The exchange answers with candles [timestamp, close, volume]: the open   *)
(* time in milliseconds and the numeric fields as text, of which close and *)
(* volume stand for the six columns converted with astype(float).          *)
(***************************************************************************)

\* The milliseconds of a day (timestamps are converted with unit='ms').
day_ms == 86400000

\* pd.to_datetime(timestamp, unit='ms').dt.date, as a day number.
date_of_timestamp(timestamp) == timestamp \div day_ms

\* float(text): the number, or None where float raises ValueError.
float_of(text) ==
    IF \E x \in DOMAIN FloatText : FloatText[x] = text THEN Some(ParseFloat(text)) ELSE None

\* get_historical_klines with the frame built newest candle first.
get_historical_klines_newest_first(symbol, answer) ==
    IF answer.raises THEN <<>>
    ELSE IF answer.klines = <<>> THEN <<>>
    ELSE IF \E i \in 1..Len(answer.klines) :
                ~float_of(answer.klines[i].close).some \/ ~float_of(answer.klines[i].volume).some
    THEN <<>>
    ELSE [i \in 1..Len(answer.klines) |->
            [date |-> date_of_timestamp(answer.klines[Len(answer.klines) + 1 - i].timestamp),
             symbol |-> symbol,
             close |-> float_of(answer.klines[Len(answer.klines) + 1 - i].close).v,
             volume |-> float_of(answer.klines[Len(answer.klines) + 1 - i].volume).v]]

\* get_historical_klines(symbol) when the exchange answers with answer =
\* [raises, klines]: an exception of the client, no candles, or a numeric
\* text that astype(float) rejects each give an empty frame.
get_historical_klines(symbol, answer) ==
    IF answer.raises THEN <<>>
    ELSE IF answer.klines = <<>> THEN <<>>
    ELSE IF \E i \in 1..Len(answer.klines) :
                ~float_of(answer.klines[i].close).some \/ ~float_of(answer.klines[i].volume).some
    THEN <<>>
    ELSE [i \in 1..Len(answer.klines) |->
            [date |-> date_of_timestamp(answer.klines[i].timestamp),
             symbol |-> symbol,
             close |-> float_of(answer.klines[i].close).v,
             volume |-> float_of(answer.klines[i].volume).v]]

\* The candles of an answer: of day 1 or 2, with a close that is a number or
\* is not.
Candles ==
    {[timestamp |-> d * day_ms, close |-> c, volume |-> "100.0"] :
        d \in {1, 2}, c \in {"100.0", "105.0", "n/a"}}

\* The most candles in an answer.
MaxCandles == 2

KlineAnswers ==
    {[raises |-> r, klines |-> k] : r \in BOOLEAN, k \in SeqsUpTo(Candles, MaxCandles)}

KlinesInit ==
    /\ csv = NoFile
    /\ v2 = Idle
    /\ last = NoCall
    /\ enrich = Idle
    /\ market = Idle
    /\ resolver = Idle
    /\ client = Idle
    /\ run = Idle
    /\ \E symbol \in {BTCUSDT, ETHUSDT}, answer \in KlineAnswers :
          klines = [pc |-> "call", symbol |-> symbol, answer |-> answer]

\* df = self.get_historical_klines(symbol), and what collect_historical_data
\* does with it: an empty frame puts the symbol in failed_symbols.
GetKlines ==
    /\ klines.pc = "call"
    /\ LET df == get_historical_klines(klines.symbol, klines.answer)
       IN  klines' = [pc |-> "done", symbol |-> klines.symbol, answer |-> klines.answer,
                      df |-> df,
                      failed_symbols |-> IF df = <<>> THEN <<klines.symbol>> ELSE <<>>]
    /\ UNCHANGED <<csv, last, enrich, market, resolver, client, run, v2>>

KlinesNext == GetKlines

SpecKlines == KlinesInit /\ [][KlinesNext]_vars

(***************************************************************************)
(* HistoricalRun: collect_historical_data of collector.py ("hybrid": klines *)
(* enriched with CoinGecko data, flushed every 50 symbols by merging) and  *)
(* of binance_eod_collector/collector.py ("package": klines with a market  *)
(* cap proxy, flushed every 100 symbols with save_to_csv's default mode).  *)
(*                                                                         *)
(* The loop is one step per symbol.  A run state st is [csv, all_data,     *)
(* failed_symbols, skipped_symbols_coingecko, collector, flushed]:         *)
(* all_data is the frames collected since the last flush, concatenated;    *)
(* flushed is the set of keys (symbol, date) handed to save_to_csv so far; *)
(* enriched is the rows handed to enrich_with_coingecko_data so far.       *)
(***************************************************************************)

\* if i % 50 == 0 and all_data (collector.py)
hybrid_flush_every == 50

\* if i % 100 == 0 and all_data (binance_eod_collector/collector.py)
package_flush_every == 100

flush_every(impl) == IF impl = "hybrid" THEN hybrid_flush_every ELSE package_flush_every

\* df['market_cap_proxy'] = df['close'] * df['volume']
calculate_market_cap_proxy(df) ==
    [i \in 1..Len(df) |->
        [date |-> df[i].date, symbol |-> df[i].symbol, close |-> df[i].close,
         volume |-> df[i].volume, market_cap_proxy |-> df[i].close * df[i].volume]]

\* The keys of the rows of a frame.
KeysOf(df) == {[symbol |-> df[i].symbol, date |-> df[i].date] : i \in 1..Len(df)}

\* A plausible slip: a symbol without klines is not recorded as failed.
after_fetch_failure_unrecorded(st, impl, symbol, df) ==
    IF df # <<>>
    THEN [st EXCEPT !.all_data = @ \o (IF impl = "hybrid" THEN df
                                       ELSE calculate_market_cap_proxy(df))]
    ELSE st

\* A plausible slip: a symbol without klines also empties the batch collected
\* so far.
after_fetch_failure_clears_batch(st, impl, symbol, df) ==
    IF df # <<>>
    THEN [st EXCEPT !.all_data = @ \o (IF impl = "hybrid" THEN df
                                       ELSE calculate_market_cap_proxy(df))]
    ELSE [st EXCEPT !.failed_symbols = Append(@, symbol), !.all_data = <<>>]

\* if not df.empty: all_data.append(df) else: failed_symbols.append(symbol)
after_fetch(st, impl, symbol, df) ==
    IF df # <<>>
    THEN [st EXCEPT !.all_data = @ \o (IF impl = "hybrid" THEN df
                                       ELSE calculate_market_cap_proxy(df))]
    ELSE [st EXCEPT !.failed_symbols = Append(@, symbol)]

\* A plausible slip: the batch is not cleared after the flush.
hybrid_flush_batch_kept(st, out, final) ==
    [st EXCEPT
        !.csv = IF out.df # <<>>
                THEN save_to_csv(@, IF final THEN sort_values(out.df) ELSE out.df, "a")
                ELSE @,
        !.skipped_symbols_coingecko = @ \o out.skipped,
        !.collector = out.collector,
        !.flushed = IF out.df # <<>> THEN @ \cup KeysOf(out.df) ELSE @,
        !.enriched = @ \o st.all_data]

\* The hybrid flush once the batch is enriched to out: the skipped symbols
\* are noted, and a non-empty enriched frame is merged into the file (the
\* final batch sorted first).
hybrid_flush(st, out, final) ==
    [st EXCEPT
        !.csv = IF out.df # <<>>
                THEN save_to_csv(@, IF final THEN sort_values(out.df) ELSE out.df, "a")
                ELSE @,
        !.skipped_symbols_coingecko = @ \o out.skipped,
        !.collector = out.collector,
        !.all_data = <<>>,
        !.flushed = IF out.df # <<>> THEN @ \cup KeysOf(out.df) ELSE @,
        !.enriched = @ \o st.all_data]

\* The package flush: save_to_csv(combined_df) with the default mode 'w' (the
\* final batch sorted first).
package_flush(st, final) ==
    [st EXCEPT
        !.csv = save_to_csv(@, IF final THEN sort_values(st.all_data) ELSE st.all_data, "w"),
        !.all_data = <<>>,
        !.flushed = @ \cup KeysOf(st.all_data)]

\* The flush of the batch collected in st, if there is one.
flush(st, impl, env, final) ==
    IF st.all_data = <<>> THEN st
    ELSE IF impl = "hybrid"
    THEN hybrid_flush(st, enrich_with_coingecko_data(st.all_data, st.collector, 0, env), final)
    ELSE package_flush(st, final)

\* The end of the loop body for symbol number i: the intermediate flush.
end_of_iteration(st, impl, env, i) ==
    IF i % flush_every(impl) = 0 THEN flush(st, impl, env, FALSE) ELSE st

\* The trading pair at position p of the symbol list: a base of two letters
\* quoted in USDT, all distinct.
RunSymbolAt(p) ==
    <<Chars[((p - 1) \div 26) + 1], Chars[((p - 1) % 26) + 1], "U", "S", "D", "T">>

\* What the exchange and the provider hold for the symbol at position p
\* under a profile: klines and a listed coin with its market cap, no klines,
\* klines but no listed coin, or klines and a listed coin without market cap.
Outcome(profile, p) ==
    CASE profile = "fail" -> "fail"
      [] profile = "unlisted" -> "unlisted"
      [] profile = "mixed" -> << "nocap", "listed", "fail", "unlisted" >>[(p % 4) + 1]
      [] OTHER -> "listed"

\* The profiles: every symbol alike, the four cases in turn, and every
\* symbol listed while the /coins/list or the /coins/markets requests fail.
RunProfiles == {"ok", "fail", "unlisted", "mixed", "listing_down", "markets_down"}

\* The exchange's answer for the symbol at position p: one candle of day 1,
\* or an exception.
KlineAnswerAt(profile, p) ==
    [raises |-> Outcome(profile, p) = "fail",
     klines |-> <<[timestamp |-> day_ms, close |-> "100.0", volume |-> "100.0"]>>]

\* The provider for a run over n symbols: the listing holds the bases of the
\* symbols listed, under the id that is the position's number; the markets
\* endpoint knows the coins listed, some without market cap.
RunEnv(profile, n) ==
    LET listed == SelectSeq(Positions(n), LAMBDA p : Outcome(profile, p) # "unlisted")
        position(id) == CHOOSE p \in 1..n : ToString(p) = id
    IN  [listing |-> [k \in 1..Len(listed) |->
                        [id |-> ToString(listed[k]),
                         symbol |-> Lower(SubSeq(RunSymbolAt(listed[k]), 1, 2))]],
         list_failing |-> IF profile = "listing_down" THEN 1..n ELSE {},
         coins |-> [id \in {ToString(listed[k]) : k \in 1..Len(listed)} |->
                      IF Outcome(profile, position(id)) = "nocap"
                      THEN [FullCoin(id) EXCEPT !.market_cap = None]
                      ELSE FullCoin(id)],
         failing |-> IF profile = "markets_down" THEN {1} ELSE {},
         set_order |-> [p \in 1..n |-> RunSymbolAt(p)]]

\* collect_historical_data(symbols_filter=symbols) from the k-th symbol on,
\* for the symbols at the positions given: the loop, then the final batch.
\* after is the run state at the end of the k-th iteration.
RECURSIVE collect_from(_, _, _, _, _, _)
collect_from(st, impl, profile, env, positions, k) ==
    IF k > Len(positions) THEN flush(st, impl, env, TRUE)
    ELSE CHOOSE result \in
            {collect_from(after, impl, profile, env, positions, k + 1) :
                after \in {end_of_iteration(
                              after_fetch(st, impl, RunSymbolAt(positions[k]),
                                          get_historical_klines(RunSymbolAt(positions[k]),
                                                                KlineAnswerAt(profile, positions[k]))),
                              impl, env, k)}} : TRUE

\* A run state before the first symbol, on the file given.
NewRun(file) ==
    [csv |-> file, all_data |-> <<>>, failed_symbols |-> <<>>,
     skipped_symbols_coingecko |-> <<>>,
     collector |-> [has_map |-> FALSE, coingecko_map |-> EmptyDict, timestamp |-> 0],
     flushed |-> {}, enriched |-> <<>>]

\* The most intermediate flushes of a run.
MaxFlushes == 1

\* The symbol counts around the flush boundaries: 0, 1, 49, 50, 51 (hybrid),
\* 0, 1, 99, 100, 101 (package).
RunCounts(impl) ==
    {n \in 0..(MaxFlushes * flush_every(impl) + 1) :
        \E b \in 0..MaxFlushes, d \in {-1, 0, 1} : n = b * flush_every(impl) + d}

\* The destination file before the run: missing, or left by an earlier run
\* with a bar of a pair that this run does not collect.
RunStores == {NoFile, to_csv(<<Bar(2, <<"Z","Z","U","S","D","T">>, 105)>>)}

RunInit ==
    /\ csv \in RunStores
    /\ v2 = Idle
    /\ last = NoCall
    /\ enrich = Idle
    /\ market = Idle
    /\ resolver = Idle
    /\ client = Idle
    /\ klines = Idle
    /\ \E impl \in {"hybrid", "package"}, profile \in RunProfiles :
          \E n \in RunCounts(impl) :
              run = [pc |-> IF n = 0 THEN "final" ELSE "loop",
                     impl |-> impl, profile |-> profile, n |-> n, i |-> 0,
                     all_data |-> <<>>, failed_symbols |-> <<>>,
                     skipped_symbols_coingecko |-> <<>>,
                     collector |-> [has_map |-> FALSE, coingecko_map |-> EmptyDict,
                                    timestamp |-> 0],
                     flushed |-> {}, enriched |-> <<>>, before |-> csv]

\* The run state as the loop body takes it.
RunState ==
    [csv |-> csv, all_data |-> run.all_data, failed_symbols |-> run.failed_symbols,
     skipped_symbols_coingecko |-> run.skipped_symbols_coingecko,
     collector |-> run.collector, flushed |-> run.flushed, enriched |-> run.enriched]

\* The run goes on from the run state st, at position i, with pc.
RunBecomes(st, i, pc) ==
    /\ csv' = st.csv
    /\ run' = [run EXCEPT !.pc = pc, !.i = i, !.all_data = st.all_data,
                          !.failed_symbols = st.failed_symbols,
                          !.skipped_symbols_coingecko = st.skipped_symbols_coingecko,
                          !.collector = st.collector, !.flushed = st.flushed,
                          !.enriched = st.enriched]

\* One iteration of "for i, symbol in enumerate(symbols, 1)": the klines of
\* the symbol, and the intermediate flush when i is a multiple of the batch.
RunSymbol ==
    /\ run.pc = "loop"
    /\ RunBecomes(end_of_iteration(
                      after_fetch(RunState, run.impl, RunSymbolAt(run.i + 1),
                                  get_historical_klines(RunSymbolAt(run.i + 1),
                                                        KlineAnswerAt(run.profile, run.i + 1))),
                      run.impl, RunEnv(run.profile, run.n), run.i + 1),
                  run.i + 1,
                  IF run.i + 1 = run.n THEN "final" ELSE "loop")
    /\ UNCHANGED <<last, enrich, market, resolver, client, klines, v2>>

\* After the loop: the final batch.
RunFinal ==
    /\ run.pc = "final"
    /\ RunBecomes(flush(RunState, run.impl, RunEnv(run.profile, run.n), TRUE), run.i, "done")
    /\ UNCHANGED <<last, enrich, market, resolver, client, klines, v2>>

RunNext == RunSymbol \/ RunFinal

SpecRun == RunInit /\ [][RunNext]_vars

(***************************************************************************)
(* CryptoDataCollector (crypto_collector_v2.py) as a process:              *)
(* collect_historical_data and collect_daily_update, each started by a new *)
(* process (main() builds the collector), on the files of output_dir.      *)
(*                                                                         *)
(* A frame row is [date, symbol, base_asset, coingecko_id, price]; date is *)
(* the text of strftime('%Y-%m-%d'), which read_csv gives back as text.    *)
(* The clock and the call log of rate_limit_coingecko are those of the     *)
(* CoinGecko client above: the limiter always returns, so the runs are     *)
(* followed here by their requests and answers only.                       *)
(***************************************************************************)

\* f"{prefix}_crypto_data.csv" if prefix else "crypto_data.csv"
data_filename(prefix) == IF prefix = "" THEN "crypto_data.csv" ELSE prefix \o "_crypto_data.csv"

\* Save progress every 50 pairs.
checkpoint_every == 50

\* The order of sort_values(['symbol', 'date']) on rows whose date is text:
\* ISO dates compare as texts the way their days do.
v2_row_less(r, s) ==
    IF r.symbol = s.symbol THEN ParseDate(r.date) < ParseDate(s.date)
    ELSE StrLess(r.symbol, s.symbol)

v2_sort_rank(df) ==
    [i \in 1..Len(df) |->
        1 + Cardinality({j \in 1..Len(df) :
                            \/ v2_row_less(df[j], df[i])
                            \/ ~v2_row_less(df[i], df[j]) /\ j < i})]

\* df.sort_values(['symbol', 'date'])
v2_sort_values(df) == Placed(df, v2_sort_rank(df))

\* df.to_csv(output_file, index=False) and pd.read_csv(data_file): the price
\* is written as text and parsed back, the other columns are text.
v2_to_csv(df) == [i \in 1..Len(df) |-> [df[i] EXCEPT !.price = FormatFloat(df[i].price)]]

v2_read_csv(rows) == [i \in 1..Len(rows) |-> [rows[i] EXCEPT !.price = ParseFloat(rows[i].price)]]

\* save_data(data_list, prefix): the files after the call. data_list is the
\* concatenation of the frames collected.
save_data(files, data_list, prefix) ==
    IF data_list = <<>> THEN files
    ELSE Put(files, data_filename(prefix), v2_to_csv(v2_sort_values(data_list)))

\* The frame get_historical_data builds from an answer with data: the daily
\* points up to today, the latest carrying the price at the request.
chart_frame(today, price) ==
    << [date |-> FormatDate(today - 1), price |-> 100],
       [date |-> FormatDate(today), price |-> price] >>

\* df['symbol'] = symbol; df['base_asset'] = base_asset;
\* df['coingecko_id'] = coingecko_id
with_pair(df, pair, coingecko_id) ==
    [i \in 1..Len(df) |->
        [date |-> df[i].date, symbol |-> pair.symbol, base_asset |-> pair.base_asset,
         coingecko_id |-> coingecko_id, price |-> df[i].price]]

\* df.sort_values('date').tail(1) on a frame of distinct dates.
latest_day(df) ==
    SelectSeq(df, LAMBDA r : \A k \in 1..Len(df) : ParseDate(df[k].date) <= ParseDate(r.date))

\* existing_df[['symbol', 'base_asset', 'coingecko_id']].drop_duplicates()
pairs_of(df) ==
    LET first(i) == \A j \in 1..(i - 1) :
                        <<df[j].symbol, df[j].base_asset, df[j].coingecko_id>> #
                        <<df[i].symbol, df[i].base_asset, df[i].coingecko_id>>
    IN  [k \in 1..Len(SelectSeq(Positions(Len(df)), first)) |->
            [symbol |-> df[SelectSeq(Positions(Len(df)), first)[k]].symbol,
             base_asset |-> df[SelectSeq(Positions(Len(df)), first)[k]].base_asset,
             coingecko_id |-> df[SelectSeq(Positions(Len(df)), first)[k]].coingecko_id]]

\* The merge of collect_daily_update: concat, drop_duplicates(subset=['date',
\* 'symbol'], keep='last'), sort_values(['symbol', 'date']).
daily_merge(existing_df, new_df) == v2_sort_values(drop_duplicates(existing_df \o new_df))

\* The pairs get_binance_spot_pairs can return.
BNBUSDT == <<"B","N","B","U","S","D","T">>

V2Pairs ==
    { [symbol |-> BTCUSDT, base_asset |-> BTC],
      [symbol |-> BNBUSDT, base_asset |-> BNB],
      [symbol |-> FAKEUSDT, base_asset |-> <<"F","A","K","E">>] }

\* The most pairs of one run.
MaxPairs == 2

\* The lists of pairs: the symbols of the exchange are distinct; the empty
\* list is also what a failed exchangeInfo request gives.
PairLists ==
    {ps \in SeqsUpTo(V2Pairs, MaxPairs) : \A i, j \in 1..Len(ps) : ps[i] = ps[j] => i = j}

\* The /coins/list answer during the runs.
V2Listing ==
    << [id |-> "bitcoin", symbol |-> <<"b","t","c">>, name |-> <<"B","i","t","c","o","i","n">>] >>

\* The depth of the recursion of get_historical_data that is told apart:
\* the value stands for this depth or any greater one.
MaxDepth == 3

\* The most runs started, and the last day of the clock.
MaxRuns == 3

MaxDay == 3

\* crypto_data.csv as an earlier installation may have left it.
V2Stores ==
    { EmptyDict,
      Put(EmptyDict, data_filename(""),
          v2_to_csv(<< [date |-> FormatDate(1), symbol |-> BTCUSDT, base_asset |-> BTC,
                        coingecko_id |-> "bitcoin", price |-> 105],
                       [date |-> FormatDate(1), symbol |-> ETHUSDT,
                        base_asset |-> <<"E","T","H">>,
                        coingecko_id |-> "ethereum", price |-> 100] >>)) }

\* The state of a process between two runs.
V2Ready(files, mapping_file, today, runs, outcome) ==
    [pc |-> "ready", files |-> files, mapping_file |-> mapping_file, today |-> today,
     runs |-> runs, outcome |-> outcome, pairs |-> <<>>, i |-> 0, depth |-> 0, attempts |-> 0,
     symbol_to_id |-> EmptyDict, symbol_mapping |-> EmptyDict,
     all_data |-> <<>>, successful_pairs |-> 0, failed_pairs |-> <<>>, existing_df |-> <<>>,
     before |-> files]

V2Init ==
    /\ csv = NoFile
    /\ last = NoCall
    /\ enrich = Idle
    /\ market = Idle
    /\ resolver = Idle
    /\ client = Idle
    /\ run = Idle
    /\ klines = Idle
    /\ \E files \in V2Stores : v2 = V2Ready(files, EmptyDict, 2, 0, "none")

\* A day passes between two runs.
V2Tick ==
    /\ v2.pc = "ready"
    /\ v2.today < MaxDay
    /\ v2' = [v2 EXCEPT !.today = @ + 1]
    /\ UNCHANGED <<csv, last, enrich, market, resolver, client, run, klines>>

\* collect_historical_data() up to its loop, in a new process: the symbol
\* mapping is loaded from symbol_mapping.json, the pairs and the listing are
\* fetched; without pairs it returns.
HistStart ==
    /\ v2.pc = "ready"
    /\ v2.runs < MaxRuns
    /\ \E pairs \in PairLists, ok \in BOOLEAN :
          v2' = IF pairs = <<>>
                THEN V2Ready(v2.files, v2.mapping_file, v2.today, v2.runs + 1, "no_pairs")
                ELSE [V2Ready(v2.files, v2.mapping_file, v2.today, v2.runs + 1, "none") EXCEPT
                         !.pc = "historical", !.pairs = pairs, !.i = 1,
                         !.symbol_mapping = v2.mapping_file,
                         !.symbol_to_id =
                             v2_get_coingecko_coins_list([ok |-> ok, coins |-> V2Listing])]
    /\ UNCHANGED <<csv, last, enrich, market, resolver, client, run, klines>>

\* The attempts of one get_historical_data call are counted up to
\* MaxDepth + 1, and the further ones by their parity.
one_more(attempts) ==
    IF attempts <= MaxDepth THEN attempts + 1
    ELSE IF attempts = MaxDepth + 1 THEN MaxDepth + 2 ELSE MaxDepth + 1

\* The loop goes on to the next pair, or leaves after the last one.
next_pair(st, final) ==
    [st EXCEPT !.i = @ + 1, !.depth = 0, !.attempts = 0,
               !.pc = IF st.i = Len(st.pairs) THEN final ELSE st.pc]

\* What an activation of get_historical_data meets: an answer of the
\* provider, or, at the depth that stands for any greater one, the
\* interpreter's RecursionError, raised inside the try block (and caught by
\* "except Exception") or outside it (and propagated out of the run).
Meets(depth) ==
    Answers \cup (IF depth = MaxDepth THEN {"recursion_caught", "recursion_raised"} ELSE {})

\* The process after a RecursionError left collect_historical_data or
\* collect_daily_update: it ends with what is on disk.
raised(st) == V2Ready(st.files, st.mapping_file, st.today, st.runs, "raised")

\* The body of the loop of collect_historical_data for the pair at i once
\* get_historical_data has returned a frame: the pair is recorded, and a
\* checkpoint is saved every 50 successful pairs.
hist_collected(st, df, coingecko_id) ==
    LET all_data == st.all_data \o with_pair(df, st.pairs[st.i], coingecko_id)
        successful_pairs == st.successful_pairs + 1
    IN  [st EXCEPT
            !.all_data = all_data,
            !.successful_pairs = successful_pairs,
            !.files = IF successful_pairs % checkpoint_every = 0
                      THEN save_data(st.files, all_data,
                                     "checkpoint_" \o ToString(successful_pairs))
                      ELSE st.files]

\* One step of the loop of collect_historical_data for the pair at i: the
\* mapping, then one activation of get_historical_data. On 429 the
\* activation sleeps and calls get_historical_data again (the next step).
hist_step(st, mapped, meets, price) ==
    IF ~mapped.id.some \/ mapped.id.v = ""
    THEN next_pair([st EXCEPT !.failed_pairs = Append(@, st.pairs[st.i].symbol)], "hist_final")
    ELSE IF meets = "recursion_raised" THEN raised(st)
    ELSE IF meets # "recursion_caught" /\ after_answer(meets).retry
    THEN [st EXCEPT !.symbol_mapping = mapped.symbol_mapping,
                    !.attempts = one_more(@),
                    !.depth = Min(@ + 1, MaxDepth)]
    ELSE IF meets # "recursion_caught" /\ after_answer(meets).result = "frame"
    THEN next_pair(hist_collected([st EXCEPT !.symbol_mapping = mapped.symbol_mapping],
                                  chart_frame(st.today, price), mapped.id.v),
                   "hist_final")
    ELSE next_pair([st EXCEPT !.symbol_mapping = mapped.symbol_mapping,
                              !.failed_pairs = Append(@, st.pairs[st.i].symbol)],
                   "hist_final")

HistPair ==
    /\ v2.pc = "historical"
    /\ \E meets \in Meets(v2.depth), price \in DOMAIN FloatText :
          v2' = hist_step(v2,
                          v2_map_binance_to_coingecko(v2.pairs[v2.i].base_asset,
                                                      v2.symbol_to_id, v2.symbol_mapping),
                          meets, price)
    /\ UNCHANGED <<csv, last, enrich, market, resolver, client, run, klines>>

\* After the loop: save_symbol_mapping(), then save_data(all_data,
\* 'historical') when something was collected.
HistFinal ==
    /\ v2.pc = "hist_final"
    /\ v2' = [V2Ready(save_data(v2.files, v2.all_data, "historical"), v2.symbol_mapping,
                      v2.today, v2.runs,
                      IF v2.all_data # <<>> THEN "historical_saved" ELSE "no_data") EXCEPT
                 !.before = v2.before,
                 !.successful_pairs = v2.successful_pairs,
                 !.failed_pairs = v2.failed_pairs]
    /\ UNCHANGED <<csv, last, enrich, market, resolver, client, run, klines>>

\* collect_daily_update() up to its loop, in a new process: without
\* crypto_data.csv it returns; else the file is read and its pairs listed.
DailyStart ==
    /\ v2.pc = "ready"
    /\ v2.runs < MaxRuns
    /\ v2' = IF data_filename("") \notin DOMAIN v2.files
             THEN V2Ready(v2.files, v2.mapping_file, v2.today, v2.runs + 1, "no_file")
             ELSE [V2Ready(v2.files, v2.mapping_file, v2.today, v2.runs + 1, "none") EXCEPT
                      !.pc = IF v2.files[data_filename("")] = <<>>
                             THEN "update_final" ELSE "update",
                      !.existing_df = v2_read_csv(v2.files[data_filename("")]),
                      !.pairs = pairs_of(v2_read_csv(v2.files[data_filename("")])),
                      !.symbol_mapping = v2.mapping_file,
                      !.i = 1]
    /\ UNCHANGED <<csv, last, enrich, market, resolver, client, run, klines>>

\* One step of the loop of collect_daily_update for the pair at i: one
\* activation of get_historical_data(coingecko_id, days=2).
update_step(st, meets, price) ==
    IF meets = "recursion_raised" THEN raised(st)
    ELSE IF meets # "recursion_caught" /\ after_answer(meets).retry
    THEN [st EXCEPT !.attempts = one_more(@), !.depth = Min(@ + 1, MaxDepth)]
    ELSE IF meets # "recursion_caught" /\ after_answer(meets).result = "frame"
    THEN next_pair([st EXCEPT
                       !.all_data = @ \o with_pair(latest_day(chart_frame(st.today, price)),
                                                   st.pairs[st.i], st.pairs[st.i].coingecko_id),
                       !.successful_pairs = @ + 1],
                   "update_final")
    ELSE next_pair(st, "update_final")

DailyPair ==
    /\ v2.pc = "update"
    /\ \E meets \in Meets(v2.depth), price \in DOMAIN FloatText :
          v2' = update_step(v2, meets, price)
    /\ UNCHANGED <<csv, last, enrich, market, resolver, client, run, klines>>

\* After the loop: with new data the merged frame replaces crypto_data.csv.
DailyFinal ==
    /\ v2.pc = "update_final"
    /\ v2' = [V2Ready(IF v2.all_data # <<>>
                      THEN Put(v2.files, data_filename(""),
                               v2_to_csv(daily_merge(v2.existing_df, v2.all_data)))
                      ELSE v2.files,
                      v2.mapping_file, v2.today, v2.runs,
                      IF v2.all_data # <<>> THEN "merged" ELSE "no_new_data") EXCEPT
                 !.before = v2.before,
                 !.all_data = v2.all_data,
                 !.successful_pairs = v2.successful_pairs]
    /\ UNCHANGED <<csv, last, enrich, market, resolver, client, run, klines>>

\* The steps of a run in progress.
V2Step == HistPair \/ HistFinal \/ DailyPair \/ DailyFinal

V2Next == V2Tick \/ HistStart \/ DailyStart \/ HistPair \/ HistFinal \/ DailyPair \/ DailyFinal

SpecV2 == V2Init /\ [][V2Next]_vars

\* The process is scheduled as long as a run is in progress.
SpecV2Live == V2Init /\ [][V2Next]_vars /\ WF_vars(V2Step)

(***************************************************************************)
(* DailyUpdate: BinanceEODCollector.collect_daily_update of collector.py   *)
(* on all_pairs_eod.csv, and the daily updates of CryptoDataCollector on   *)
(* an existing crypto_data.csv.                                            *)
(***************************************************************************)

\* get_current_day_ticker(symbols) when the exchange answers get_ticker()
\* with answer = [raises, tickers]: the tickers of the symbols asked for, as
\* rows of today; no such ticker, or a BinanceAPIException, gives an empty
\* frame.
get_current_day_ticker(symbols, answer, today) ==
    IF answer.raises THEN <<>>
    ELSE [i \in 1..Len(SelectSeq(answer.tickers, LAMBDA t : t.symbol \in symbols)) |->
            [date |-> today,
             symbol |-> SelectSeq(answer.tickers, LAMBDA t : t.symbol \in symbols)[i].symbol,
             close |-> float_of(SelectSeq(answer.tickers,
                                          LAMBDA t : t.symbol \in symbols)[i].lastPrice).v]]

\* The enriched frame as save_to_csv takes it: the columns of a bar.
as_bars(df) == [i \in 1..Len(df) |-> Bar(df[i].date, df[i].symbol, df[i].close)]

\* collect_daily_update() once the ticker frame df is enriched to out: a
\* non-empty enriched frame is merged into the file.
daily_saved(file, out) ==
    [csv |-> IF out.df # <<>> THEN save_to_csv(file, as_bars(out.df), "a") ELSE file,
     collector |-> out.collector,
     saved |-> as_bars(out.df)]

\* collect_daily_update(): the file and the collector after the call, and
\* the rows handed to save_to_csv.
collect_daily_update(file, collector, now, symbols, answer, today, env) ==
    IF get_current_day_ticker(symbols, answer, today) = <<>>
    THEN [csv |-> file, collector |-> collector, saved |-> <<>>]
    ELSE daily_saved(file,
                     enrich_with_coingecko_data(get_current_day_ticker(symbols, answer, today),
                                                collector, now, env))

\* The symbols get_all_spot_symbols returns.
DailySymbols == {BTCUSDT, ETHUSDT, FAKEUSDT}

\* The tickers of get_ticker(): of the symbols asked for, one of them at two
\* prices, and of another symbol.
Tickers ==
    { [symbol |-> BTCUSDT, lastPrice |-> "100.0"],
      [symbol |-> BTCUSDT, lastPrice |-> "105.0"],
      [symbol |-> ETHUSDT, lastPrice |-> "105.0"],
      [symbol |-> FAKEUSDT, lastPrice |-> "100.0"],
      [symbol |-> BTCEUR, lastPrice |-> "100.0"] }

\* The answers of the exchange: a BinanceAPIException, or a list of no, one
\* or two tickers, of distinct symbols.
TickerAnswers ==
    {[raises |-> TRUE, tickers |-> <<>>]} \cup
    {[raises |-> FALSE, tickers |-> ts] :
        ts \in {<<>>} \cup {<<t>> : t \in Tickers}
                \cup {p \in Tickers \X Tickers : p[1].symbol # p[2].symbol}}

\* The provider during the updates: both coins known and the markets request
\* answered, or bitcoin without market cap, or the markets request failing.
DailyEnvs ==
    {env \in EnrichEnvs :
        /\ env.list_failing = {}
        /\ env.set_order = <<BTCEUR, BTCUSDT, ETHUSDT, FAKEUSDT>>
        /\ DOMAIN env.coins = {"bitcoin", "ethereum"}
        /\ env.coins["ethereum"] = FullCoin("ethereum")
        /\ \/ env.coins["bitcoin"] = FullCoin("bitcoin")
           \/ env.failing = {} /\ env.coins["bitcoin"] = [FullCoin("bitcoin") EXCEPT !.market_cap = None]}

\* all_pairs_eod.csv before the updates: missing, or as historical runs left
\* it, sorted or in the order of the symbol list, with or without a row of
\* today, or with the bars of a symbol collected twice (save_to_csv onto a
\* missing file writes the frame as it is).
DailyStores ==
    { NoFile,
      to_csv(<<Bar(1, BTCUSDT, 100), Bar(1, ETHUSDT, 100)>>),
      to_csv(<<Bar(1, ETHUSDT, 105), Bar(2, ETHUSDT, 100), Bar(1, BTCUSDT, 100)>>),
      save_to_csv(NoFile, <<Bar(1, BTCUSDT, 100), Bar(1, BTCUSDT, 105)>>, "a") }

\* The most updates run, by either collector.
MaxUpdates == 2

\* The first day of the updates.
FirstDay == 2

DailyInit ==
    /\ last = NoCall
    /\ enrich = Idle
    /\ market = Idle
    /\ resolver = Idle
    /\ client = Idle
    /\ klines = Idle
    /\ \/ /\ csv \in DailyStores
          /\ v2 = Idle
          /\ run = [pc |-> "daily", today |-> FirstDay, updates |-> 0, updates_today |-> 0,
                    collector |-> NewCollector, before |-> csv, saved |-> <<>>]
       \/ /\ csv = NoFile
          /\ run = Idle
          /\ \E files \in V2Stores :
                /\ data_filename("") \in DOMAIN files
                /\ v2 = V2Ready(files, EmptyDict, FirstDay, 0, "none")

\* A day passes between two updates of collector.py.
DailyTick ==
    /\ run.pc = "daily"
    /\ run.today < MaxDay
    /\ run' = [run EXCEPT !.today = @ + 1, !.updates_today = 0]
    /\ UNCHANGED <<csv, last, enrich, market, resolver, client, klines, v2>>

\* One collect_daily_update() of collector.py, for any answer of the exchange
\* and of the provider.
CollectDailyUpdate ==
    /\ run.pc = "daily"
    /\ run.updates < MaxUpdates
    /\ \E answer \in TickerAnswers, env \in DailyEnvs :
          LET out == collect_daily_update(csv, run.collector, cache_seconds * run.today,
                                          DailySymbols, answer, run.today, env)
          IN  /\ csv' = out.csv
              /\ run' = [run EXCEPT !.updates = @ + 1, !.updates_today = @ + 1,
                                    !.collector = out.collector,
                                    !.before = csv, !.saved = out.saved]
    /\ UNCHANGED <<last, enrich, market, resolver, client, klines, v2>>

\* A daily update of CryptoDataCollector starts while updates are left.
V2DailyStart ==
    /\ v2.pc = "ready"
    /\ v2.runs < MaxUpdates
    /\ DailyStart

DailyNext ==
    DailyTick \/ CollectDailyUpdate \/ V2Tick \/ V2DailyStart \/ DailyPair \/ DailyFinal

SpecDaily == DailyInit /\ [][DailyNext]_vars

(***************************************************************************)
(* Properties of the store                                                 *)
(***************************************************************************)

\* The key of a stored row and of a bar, as the file holds it.
FileKey(r) == <<r.symbol, r.date>>
BarKey(b) == <<b.symbol, FormatDate(b.date)>>

\* The stored rows with key k.
StoredAt(file, k) == SelectSeq(file.rows, LAMBDA r : FileKey(r) = k)

\* The position of the last bar of df with key k.
LastAt(df, k) == CHOOSE i \in 1..Len(df) :
    /\ BarKey(df[i]) = k
    /\ \A j \in (i + 1)..Len(df) : BarKey(df[j]) # k

\* The stored rows are in (symbol, date) order.
FileSorted(file) ==
    LET df == to_date_column(read_csv(file))
    IN  \A i, j \in 1..Len(df) : i < j => ~RowLess(df[j], df[i])

\* The stored rows, as a set.
RowSet(file) == {file.rows[i] : i \in 1..Len(file.rows)}

MergedOntoExisting == last.mode = "a" /\ last.before.exists

\* C1: a merge write onto a store that holds key (D, S) with rows that hold the
\* same key leaves exactly one row with that key, carrying the value of the
\* last-occurring new row with that key.
C1_MergeLastWins ==
    MergedOntoExisting =>
        \A i \in 1..Len(last.df) :
            LET k == BarKey(last.df[i])
            IN  StoredAt(last.before, k) # <<>> =>
                    /\ Len(StoredAt(csv, k)) = 1
                    /\ StoredAt(csv, k)[1].close = FormatFloat(last.df[LastAt(last.df, k)].close)

\* C1 witness: the store held the key with one value, the new rows hold it
\* twice with different values, and the stored value was replaced.
C1_Witness ==
    /\ MergedOntoExisting
    /\ \E i, j \in 1..Len(last.df) :
          /\ i < j
          /\ BarKey(last.df[i]) = BarKey(last.df[j])
          /\ last.df[i].close # last.df[j].close
          /\ StoredAt(last.before, BarKey(last.df[j])) # <<>>
          /\ StoredAt(last.before, BarKey(last.df[j]))[1].close # FormatFloat(last.df[j].close)
          /\ StoredAt(csv, BarKey(last.df[j]))[1].close = FormatFloat(last.df[j].close)

\* C2: the store never holds two rows with the same (symbol, date).
C2_StoreKeysUnique ==
    \A i, j \in 1..Len(csv.rows) : i < j => FileKey(csv.rows[i]) # FileKey(csv.rows[j])

\* C3: once a merge write of a frame is done, from a missing or an existing
\* file, doing the same merge write again leaves the row set as it is.
C3_MergeIdempotent ==
    last.mode = "a" => RowSet(save_to_csv(csv, last.df, "a")) = RowSet(csv)

\* C4: a call with an empty frame, in either mode, leaves the file as it was:
\* not truncated, not rewritten, not created.
C4_EmptyWriteNoOp ==
    (last.mode # "none" /\ last.df = <<>>) => csv = last.before

\* C4 witness: an empty frame was written in overwrite mode onto a file with rows.
C4_Witness ==
    /\ last.mode = "w"
    /\ last.df = <<>>
    /\ last.before.exists
    /\ last.before.rows # <<>>
    /\ csv.rows # <<>>

\* C5: an overwrite write stores exactly the given rows, in (symbol, date) order.
C5_OverwriteSorted ==
    (last.mode = "w" /\ last.df # <<>>) =>
        /\ Len(csv.rows) = Len(last.df)
        /\ RowSet(csv) = RowSet(to_csv(last.df))
        /\ FileSorted(csv)

MarketDone == market.pc = "done"

\* The ids of the requests sent, one after the other.
RECURSIVE SentIds(_)
SentIds(requests) ==
    IF requests = <<>> THEN <<>> ELSE requests[1].ids \o SentIds(Tail(requests))

\* The ids of the coins a request's response carried.
ReturnedIds(request) == {request.data[j].id : j \in 1..Len(request.data)}

\* C9: n ids are sent in ceil(n / 250) requests of at most 250 ids each, which
\* together carry every input id exactly once (none for n = 0, three for
\* n = 501), and the keys of the returned mapping are the ids returned by the
\* successful responses.
C9_BatchBoundary ==
    MarketDone =>
        LET n == Len(market.ids)
            R == market.requests
        IN  /\ Len(R) = (n + batch_size - 1) \div batch_size
            /\ \A k \in 1..Len(R) : Len(R[k].ids) \in 1..batch_size
            /\ SentIds(R) = market.ids
            /\ DOMAIN market.market_data =
                   UNION {ReturnedIds(R[k]) : k \in {q \in 1..Len(R) : R[q].ok}}

\* C9 witness: 2 * 250 + 1 ids went out in three requests, one of which failed
\* and one of which returned coins.
C9_Witness ==
    /\ MarketDone
    /\ Len(market.ids) = 2 * batch_size + 1
    /\ Len(market.requests) = 3
    /\ Len(market.requests[3].ids) = 1
    /\ \E k \in 1..3 : ~market.requests[k].ok
    /\ \E k \in 1..3 : market.requests[k].ok /\ market.requests[k].data # <<>>
    /\ DOMAIN market.market_data # {}

\* C10: a failed batch is requested once, its ids are in the result only if
\* another successful batch returned them, every later batch is still
\* requested, and the records of the earlier batches are kept.
C10_FailedBatchSkipped ==
    MarketDone =>
        LET n == Len(market.ids)
            R == market.requests
            md == market.market_data
        IN  \A k \in 1..Len(R) :
                ~R[k].ok =>
                    /\ Cardinality({q \in 1..Len(R) : R[q].i = R[k].i}) = 1
                    /\ \A o \in (R[k].i + 1)..(n - 1) :
                          o % batch_size = 0 => \E q \in (k + 1)..Len(R) : R[q].i = o
                    /\ \A p \in 1..Len(R[k].ids) :
                          R[k].ids[p] \in DOMAIN md =>
                              \E q \in 1..Len(R) : R[q].ok /\ R[k].ids[p] \in ReturnedIds(R[q])
                    /\ \A q \in 1..(k - 1) :
                          R[q].ok =>
                              \A j \in 1..Len(R[q].data) :
                                  /\ R[q].data[j].id \in DOMAIN md
                                  /\ md[R[q].data[j].id] = market_entry(R[q].data[j])

\* C10 witness: the second of three batches failed, between two batches that
\* returned coins.
C10_Witness ==
    /\ MarketDone
    /\ Len(market.requests) = 3
    /\ market.requests[1].ok /\ market.requests[1].data # <<>>
    /\ ~market.requests[2].ok
    /\ market.requests[3].ok /\ market.requests[3].data # <<>>
    /\ \E p \in 1..Len(market.requests[2].ids) :
          market.requests[2].ids[p] \notin DOMAIN market.market_data

(***************************************************************************)
(* Properties of the enrichment                                            *)
(***************************************************************************)

EnrichDone == enrich.pc = "done"

\* The symbols of the input bars.
InputSymbols == {enrich.bars[i].symbol : i \in 1..Len(enrich.bars)}

\* The symbol was mapped to a provider id by the call.
Resolved(symbol) == \E k \in 1..Len(enrich.out.mapped) : enrich.out.mapped[k].symbol = symbol

\* The provider id the call mapped the symbol to.
IdOf(symbol) ==
    (CHOOSE m \in {enrich.out.mapped[k] : k \in 1..Len(enrich.out.mapped)} :
        m.symbol = symbol).cg_id

\* The symbol resolved, and the market data fetched has a record for its id.
HasRecord(symbol) == Resolved(symbol) /\ IdOf(symbol) \in DOMAIN enrich.out.market_data

EnrichedSymbols == {enrich.out.df[j].symbol : j \in 1..Len(enrich.out.df)}

SkippedSymbols == {enrich.out.skipped[j] : j \in 1..Len(enrich.out.skipped)}

\* C7: the enriched rows are rows of symbols that resolved and have a fetched
\* record, and the skipped symbols are exactly the input symbols that did not
\* resolve or have no fetched record.
C7_EnrichmentExclusion ==
    EnrichDone =>
        /\ EnrichedSymbols \subseteq {s \in InputSymbols : HasRecord(s)}
        /\ SkippedSymbols = {s \in InputSymbols : ~HasRecord(s)}

\* C8: every input bar whose symbol resolved and whose id has a fetched record
\* is in the output with the record's four fields, absent ones as None, and
\* its symbol is not skipped.
C8_RecordAttached ==
    EnrichDone =>
        \A i \in 1..Len(enrich.bars) :
            HasRecord(enrich.bars[i].symbol) =>
                /\ \E j \in 1..Len(enrich.out.df) :
                      enrich.out.df[j] =
                          with_fields(enrich.bars[i],
                                      enrich.out.market_data[IdOf(enrich.bars[i].symbol)])
                /\ enrich.bars[i].symbol \notin SkippedSymbols

\* The rows of a frame and the members of a list, as sets.
RowsOf(df) == {df[i] : i \in 1..Len(df)}

\* The iteration orders of a set of symbols that the environments have.
SetOrders == {env.set_order : env \in EnrichEnvs}

\* The frames with the rows of df in any order.
Reordered(df) ==
    {[i \in 1..Len(df) |-> df[p[i]]] :
        p \in {q \in [1..Len(df) -> 1..Len(df)] : \A i, j \in 1..Len(df) : q[i] = q[j] => i = j}}

\* Two results of enrich_with_coingecko_data with the same set of enriched
\* rows and the same set of skipped symbols.
SameOutcome(a, b) ==
    /\ RowsOf(a.df) = RowsOf(b.df)
    /\ RowsOf(a.skipped) = RowsOf(b.skipped)

\* The provider answers the same whatever the order of the requests: no
\* failure tied to the position of a /coins/list request.
OrderFreeResponses(env) == env.list_failing = {}

\* C22: a second run of enrich_with_coingecko_data on the same bars, by a
\* collector in the same state and against the same provider, gives the same
\* set of enriched rows and the same set of skipped symbols whatever the
\* iteration order of the set of symbols left out; and so does a run on the
\* same bars in another order (another order of the distinct symbols and of
\* the provider ids) when the provider's answers do not depend on the order
\* of the requests.
C22_EnrichmentDeterminism ==
    EnrichDone =>
        /\ \A order \in SetOrders :
              SameOutcome(enrich.out,
                          enrich_with_coingecko_data(enrich.bars, NewCollector, enrich.now,
                              [enrich.env EXCEPT !.set_order = order]))
        /\ OrderFreeResponses(enrich.env) =>
              \A df \in Reordered(enrich.bars) :
                  SameOutcome(enrich.out,
                              enrich_with_coingecko_data(df, NewCollector, enrich.now, enrich.env))

\* A call that enriched the rows of one symbol and left two symbols out after
\* the market data was fetched: the set of symbols left out has two members
\* to iterate over.
C22_Witness ==
    /\ EnrichDone
    /\ OrderFreeResponses(enrich.env)
    /\ Len(enrich.bars) = 3
    /\ Len(enrich.out.df) = 1
    /\ Cardinality({s \in SkippedSymbols : Resolved(s)}) = 2

\* The bars of the input, and the rows of the output, that are of a symbol.
BarsOf(symbol) == SelectSeq(enrich.bars, LAMBDA b : b.symbol = symbol)

OutputOf(symbol) == SelectSeq(enrich.out.df, LAMBDA r : r.symbol = symbol)

\* The output row is the input bar with the four columns added.
RowOfBar(r, b) == r.date = b.date /\ r.symbol = b.symbol /\ r.close = b.close

\* C25: for every input symbol either each of its input bars has its row in
\* the enriched output or the output has no row of the symbol; the symbol is
\* in the skipped collection exactly in the second case; so the symbols of
\* the output and the skipped symbols are disjoint and together are the
\* input symbols, also when two symbols resolve to the same provider id.
C25_AllOrNothing ==
    EnrichDone =>
        /\ \A s \in InputSymbols :
              /\ \/ OutputOf(s) = <<>>
                 \/ /\ Len(OutputOf(s)) = Len(BarsOf(s))
                    /\ \A i \in 1..Len(BarsOf(s)) : RowOfBar(OutputOf(s)[i], BarsOf(s)[i])
              /\ s \in SkippedSymbols <=> OutputOf(s) = <<>>
        /\ EnrichedSymbols \cap SkippedSymbols = {}
        /\ EnrichedSymbols \cup SkippedSymbols = InputSymbols

\* Two symbols that resolved to the same provider id, one of them with two
\* bars, were both enriched.
C25_Witness ==
    /\ EnrichDone
    /\ \E s, t \in EnrichedSymbols :
          /\ s # t
          /\ IdOf(s) = IdOf(t)
          /\ Len(BarsOf(s)) = 2
          /\ Len(OutputOf(s)) = 2

\* C26: the skipped-symbols collection returned by enrich_with_coingecko_data
\* holds each skipped symbol exactly once, whatever the mix of unresolvable
\* symbols and of resolvable symbols without data.
C26_SkippedOnce ==
    EnrichDone =>
        \A i, j \in 1..Len(enrich.out.skipped) :
            enrich.out.skipped[i] = enrich.out.skipped[j] => i = j

(***************************************************************************)
(* Properties of the symbol resolver                                       *)
(***************************************************************************)

\* The symbol ends with the quote asset number q.
QuoteEnds(symbol, q) == EndsWith(symbol, quote_assets[q])

\* C11: for every non-empty base B and recognized quote asset Q,
\* extract_base_symbol(B+Q) returns exactly B, also when B ends with or is
\* another quote asset; a symbol that ends with no quote asset, or that is a
\* quote asset alone, gets None.
C11_SuffixExtraction ==
    resolver.pc = "done" =>
        /\ \A b \in BaseTexts, q \in 1..Len(quote_assets) :
              resolver.symbol = b \o quote_assets[q] => resolver.base = Some(b)
        /\ (\A q \in 1..Len(quote_assets) : ~QuoteEnds(resolver.symbol, q))
              => resolver.base = None
        /\ (\E q \in 1..Len(quote_assets) : resolver.symbol = quote_assets[q])
              => resolver.base = None

\* C11 witness: the base of BUSD+USDT was extracted, the base
\* being itself a quote asset.
C11_Witness ==
    /\ resolver.pc = "done"
    /\ resolver.symbol = <<"B","U","S","D","U","S","D","T">>
    /\ resolver.base = Some(<<"B","U","S","D">>)

\* C12: a base asset absent from the cache and present both in the table of
\* special cases and in the listing, with a different id, resolves to the id
\* of the table, and that id is cached.
C12_OverrideBeforeListing ==
    resolver.pc = "v2" =>
        \A k \in 1..Len(resolver.calls) :
            LET call == resolver.calls[k]
            IN  (/\ call.base_asset \notin DOMAIN call.cache
                 /\ call.base_asset \in DOMAIN special_mappings
                 /\ call.base_asset \in DOMAIN call.symbol_to_id
                 /\ call.symbol_to_id[call.base_asset] # special_mappings[call.base_asset])
                => /\ call.id = Some(special_mappings[call.base_asset])
                   /\ call.base_asset \in DOMAIN resolver.symbol_mapping
                   /\ resolver.symbol_mapping[call.base_asset] = special_mappings[call.base_asset]

\* C13: once a resolution of a base asset has succeeded with an id, every
\* later resolution of it on the same resolver returns that id, whatever was
\* resolved in between, whatever the listing then holds and however much time
\* has passed, and sends no listing request.
C13_CacheMonotonic ==
    resolver.pc = "v1" =>
        \A i \in 1..Len(resolver.calls), j \in 1..Len(resolver.calls) :
            (/\ i < j
             /\ resolver.calls[i].base = resolver.calls[j].base
             /\ resolver.calls[i].id.some)
            => /\ resolver.calls[j].id = resolver.calls[i].id
               /\ resolver.calls[j].requests = 0

\* C14: the /coins/list endpoint is requested at most once per 24 hours,
\* failed requests included: two requests are at least 24 hours apart.
C14_ListingOncePerWindow ==
    resolver.pc = "v1" =>
        \A i \in 1..Len(resolver.requests), j \in 1..Len(resolver.requests) :
            i < j => resolver.requests[j].now - resolver.requests[i].now >= cache_seconds

\* The entries of coins listed under the upper-cased symbol sym, and those of
\* them whose name equals the symbol, case aside.
ListedUnder(coins, sym) == {j \in 1..Len(coins) : Upper(coins[j].symbol) = sym}

NamedLike(coins, sym) == {j \in ListedUnder(coins, sym) : Lower(coins[j].name) = Lower(sym)}

\* The id the symbol is to map to: that of the first entry named like the
\* symbol if there is one, else that of the first entry.
PreferredId(coins, sym) ==
    LET among == IF NamedLike(coins, sym) # {} THEN NamedLike(coins, sym)
                 ELSE ListedUnder(coins, sym)
    IN  coins[CHOOSE j \in among : \A q \in among : j <= q].id

\* C15: the symbol-to-id map built from a listing maps each upper-cased
\* symbol to the entry whose name equals the symbol, case aside, wherever it
\* sits, and otherwise to the first entry; among entries named like the
\* symbol, and among entries not named like it, a later one never replaces
\* an earlier one.
C15_DuplicateSymbols ==
    (resolver.pc = "v1" /\ resolver.collector.has_map) =>
        LET coins == resolver.requests[Len(resolver.requests)].coins
        IN  \A sym \in {Upper(coins[j].symbol) : j \in 1..Len(coins)} :
                /\ sym \in DOMAIN resolver.collector.coingecko_map
                /\ resolver.collector.coingecko_map[sym] = PreferredId(coins, sym)

\* The latest call logged on the resolver in the next state.
LatestCall == resolver'.calls[Len(resolver'.calls)]

\* C27: a map_binance_to_coingecko call that resolves a base asset absent
\* from the cache (through the listing or the table of special cases) stores
\* exactly the entry base asset -> returned id in symbol_mapping; a call that
\* returns None, a call answered from the cache and a fetch of the listing
\* leave symbol_mapping as it is; so no entry is ever changed or removed.
C27_CacheWriteBack ==
    [][resolver.pc = "v2" =>
        /\ \A b \in DOMAIN resolver.symbol_mapping :
              /\ b \in DOMAIN resolver'.symbol_mapping
              /\ resolver'.symbol_mapping[b] = resolver.symbol_mapping[b]
        /\ IF /\ Len(resolver'.calls) > Len(resolver.calls)
              /\ LatestCall.id.some
              /\ LatestCall.base_asset \notin DOMAIN resolver.symbol_mapping
           THEN resolver'.symbol_mapping =
                    Put(resolver.symbol_mapping, LatestCall.base_asset, LatestCall.id.v)
           ELSE resolver'.symbol_mapping = resolver.symbol_mapping]_vars

\* A base asset was resolved through the listing and cached, and then
\* another one was resolved and added to the cache.
C27_Witness ==
    /\ resolver.pc = "v2"
    /\ Len(resolver.calls) = 2
    /\ resolver.calls[1].base_asset \in DOMAIN resolver.calls[1].symbol_to_id
    /\ resolver.calls[2].cache # EmptyDict
    /\ resolver.calls[2].base_asset \notin DOMAIN resolver.calls[2].cache
    /\ resolver.calls[2].id.some
    /\ Cardinality(DOMAIN resolver.symbol_mapping) = 2

(***************************************************************************)
(* Properties of the CoinGecko client                                      *)
(***************************************************************************)

\* C16: a request answered with 429 is retried once after one backoff, so one
\* logical request is never sent more than twice, however many 429 answers
\* follow each other.
C16_RetryOnce ==
    client.pc = "v2" =>
        /\ client.chart.attempts <= 2
        /\ client.chart.backoffs <= 1

\* The requests sent in the 60 seconds that end with request number i.
InWindow(requests, i) ==
    {j \in 1..Len(requests) : requests[i] - rate_window < requests[j] /\ requests[j] <= requests[i]}

\* C17: with rate_limit_coingecko before every request, no window of 60
\* seconds holds more than max_calls_per_minute requests, the window that
\* straddles a rate-limit sleep included.
C17_RateBudget ==
    client.pc = "v2" =>
        \A i \in 1..Len(client.requests) :
            Cardinality(InWindow(client.requests, i)) <= max_calls_per_minute

(***************************************************************************)
(* Properties of the kline fetcher                                         *)
(***************************************************************************)

\* The candles of the answer whose numeric text is a number, in order.
WellFormed(answer) ==
    SelectSeq(answer.klines,
              LAMBDA candle : float_of(candle.close).some /\ float_of(candle.volume).some)

\* C20: when a candle of the answer has a numeric text that is no number,
\* get_historical_klines drops that candle only: it returns the bars of the
\* other candles, and the symbol is not recorded as failed because of it.
C20_MalformedRowOnly ==
    (klines.pc = "done" /\ ~klines.answer.raises) =>
        /\ Len(klines.df) = Len(WellFormed(klines.answer))
        /\ \A i \in 1..Len(klines.df) :
              /\ klines.df[i].date = date_of_timestamp(WellFormed(klines.answer)[i].timestamp)
              /\ klines.df[i].close = float_of(WellFormed(klines.answer)[i].close).v
        /\ WellFormed(klines.answer) # <<>> => klines.failed_symbols = <<>>

\* An answer of the exchange made of candles only: no exception, every
\* numeric text a number.
WellFormedAnswer(answer) ==
    /\ ~answer.raises
    /\ WellFormed(answer) = answer.klines

\* C21: for a well-formed answer of k candles for symbol S,
\* get_historical_klines returns exactly k bars, bar i made from candle i (so
\* in ascending date order when the candles are), each tagged with S and
\* with the candle's close parsed as a number.
C21_FetchShape ==
    (klines.pc = "done" /\ WellFormedAnswer(klines.answer)) =>
        /\ Len(klines.df) = Len(klines.answer.klines)
        /\ \A i \in 1..Len(klines.df) :
              /\ klines.df[i].symbol = klines.symbol
              /\ klines.df[i].date = date_of_timestamp(klines.answer.klines[i].timestamp)
              /\ klines.df[i].close = ParseFloat(klines.answer.klines[i].close)
        /\ (\A i, j \in 1..Len(klines.answer.klines) :
                i < j => klines.answer.klines[i].timestamp < klines.answer.klines[j].timestamp)
            => \A i, j \in 1..Len(klines.df) : i < j => klines.df[i].date < klines.df[j].date

\* Two candles of consecutive days with different closes have been fetched.
C21_Witness ==
    /\ klines.pc = "done"
    /\ WellFormedAnswer(klines.answer)
    /\ Len(klines.answer.klines) = 2
    /\ klines.answer.klines[1].timestamp < klines.answer.klines[2].timestamp
    /\ klines.answer.klines[1].close # klines.answer.klines[2].close
    /\ Len(klines.df) = 2
    /\ klines.df[1].close < klines.df[2].close

(***************************************************************************)
(* Properties of the CryptoDataCollector runs                              *)
(***************************************************************************)

DailyStarts ==
    /\ v2.pc = "ready"
    /\ v2'.runs = v2.runs + 1
    /\ v2'.pc # "historical"
    /\ v2'.outcome # "no_pairs"

\* C28: a collect_daily_update that follows a collect_historical_data which
\* collected data for at least one pair and saved it finds the dataset
\* written by that run and reads it, to merge the day's rows into it; it does
\* not stop for want of a data file.
C28_UpdateFindsHistorical ==
    [][(DailyStarts /\ v2.outcome = "historical_saved") =>
        /\ v2'.outcome # "no_file"
        /\ v2'.existing_df = v2_read_csv(v2.files[data_filename("historical")])]_vars

(***************************************************************************)
(* Properties of the historical run                                        *)
(***************************************************************************)

\* The terminal categories of a symbol.
Failed(symbol) == \E k \in 1..Len(run.failed_symbols) : run.failed_symbols[k] = symbol

Skipped(symbol) ==
    \E k \in 1..Len(run.skipped_symbols_coingecko) : run.skipped_symbols_coingecko[k] = symbol

Persisted(symbol) == \E k \in 1..Len(csv.rows) : csv.rows[k].symbol = symbol

\* C18: at the end of collect_historical_data every requested symbol is in
\* exactly one of the categories failed, skipped, persisted.
C18_OutcomeAccounting ==
    (run.pc = "done" /\ run.impl = "hybrid") =>
        \A p \in 1..run.n :
            /\ Failed(RunSymbolAt(p)) \/ Skipped(RunSymbolAt(p)) \/ Persisted(RunSymbolAt(p))
            /\ ~(Failed(RunSymbolAt(p)) /\ Skipped(RunSymbolAt(p)))
            /\ ~(Failed(RunSymbolAt(p)) /\ Persisted(RunSymbolAt(p)))
            /\ ~(Skipped(RunSymbolAt(p)) /\ Persisted(RunSymbolAt(p)))

\* C18 witness: a run over more than one batch has ended with symbols in each
\* of the three categories.
C18_Witness ==
    /\ run.pc = "done"
    /\ run.impl = "hybrid"
    /\ run.n > hybrid_flush_every
    /\ \E p \in 1..run.n : Failed(RunSymbolAt(p))
    /\ \E p \in 1..run.n : Skipped(RunSymbolAt(p))
    /\ \E p \in 1..run.n : Persisted(RunSymbolAt(p))

\* C19: the rows flushed by the batches of a run so far are in the store, at
\* every point of the run and at its end.
C19_FlushedRowsKept ==
    run.pc \in {"loop", "final", "done"} =>
        \A key \in run.flushed :
            \E k \in 1..Len(csv.rows) :
                /\ csv.rows[k].symbol = key.symbol
                /\ csv.rows[k].date = FormatDate(key.date)

\* The positions of the run's symbol list whose klines the exchange gives.
Fetched == SelectSeq(Positions(run.n), LAMBDA p : Outcome(run.profile, p) # "fail")

\* The run of collect_historical_data over the symbols of this run whose
\* klines the exchange gives, on the same file and against the same exchange
\* and provider.
WithoutFailed ==
    collect_from(NewRun(run.before), run.impl, run.profile, RunEnv(run.profile, run.n),
                 Fetched, 1)

\* The members of a list, as a set.
Members(list) == {list[k] : k \in 1..Len(list)}

StoredKeys(rows) == {FileKey(rows[i]) : i \in 1..Len(rows)}

\* The stored rows with key k, among rows.
RowsAt(rows, k) == SelectSeq(rows, LAMBDA r : FileKey(r) = k)

\* The update that made stored from before kept every row of a key that
\* is not among updated, and lost no key.
OthersKept(before, stored, updated) ==
    /\ \A i \in 1..Len(before) :
          FileKey(before[i]) \notin updated =>
              RowsAt(stored, FileKey(before[i])) = RowsAt(before, FileKey(before[i]))
    /\ StoredKeys(before) \subseteq StoredKeys(stored)

\* The last collect_daily_update of collector.py left one row per symbol
\* updated, with the value of this run, and the other rows as they were.
HybridUpdateMerged ==
    /\ \A i \in 1..Len(run.saved) :
          /\ Len(StoredAt(csv, BarKey(run.saved[i]))) = 1
          /\ StoredAt(csv, BarKey(run.saved[i]))[1].close = FormatFloat(run.saved[i].close)
    /\ OthersKept(run.before.rows, csv.rows, {BarKey(run.saved[i]) : i \in 1..Len(run.saved)})
    /\ run.saved = <<>> => csv = run.before

\* The same of the last daily update of CryptoDataCollector.
V2UpdateMerged ==
    /\ \A i \in 1..Len(v2.all_data) :
          /\ Len(RowsAt(v2.files[data_filename("")], FileKey(v2.all_data[i]))) = 1
          /\ RowsAt(v2.files[data_filename("")], FileKey(v2.all_data[i]))[1].price =
                FormatFloat(v2.all_data[i].price)
    /\ OthersKept(v2.before[data_filename("")], v2.files[data_filename("")],
                  StoredKeys(v2.all_data))
    /\ v2.all_data = <<>> => v2.files = v2.before

\* C29: after every daily update, of either collector, on a store of unique
\* keys, the store holds exactly one row per (symbol, day) updated, with the
\* value of the latest run, every row of another key as it was, and no fewer
\* keys than before; an update that retrieved nothing left the store as it
\* was.
C29_DailyUpdateMerges ==
    /\ (run.pc = "daily" /\ run.updates > 0) => HybridUpdateMerged
    /\ (v2.pc = "ready" /\ v2.outcome \in {"merged", "no_new_data"}) => V2UpdateMerged

\* On a store without repeated keys the same holds after every update: the
\* rows an update drops are the earlier rows of a repeated key.
DailyUpdateMergesUniqueStore ==
    /\ (run.pc = "daily" /\ run.updates > 0 /\ Cardinality(StoredKeys(run.before.rows)) =
            Len(run.before.rows)) => HybridUpdateMerged
    /\ (v2.pc = "ready" /\ v2.outcome \in {"merged", "no_new_data"}) => V2UpdateMerged

(***************************************************************************)
(* Properties of the batch held in memory                                  *)
(***************************************************************************)

\* The symbols with a bar in a frame.
SymbolsIn(df) == {df[k].symbol : k \in 1..Len(df)}

\* The bars the exchange gives for the symbol at position p.
BarsAt(p) == get_historical_klines(RunSymbolAt(p), KlineAnswerAt(run.profile, p))

\* The bars fetched up to position i, in the order of the symbol list: the
\* exchange answers with one candle per symbol, so these are distinct bars.
BarsAtEach(positions) == [k \in 1..Len(positions) |-> BarsAt(positions[k])[1]]

FetchedBars(i) == BarsAtEach(SelectSeq(Positions(i), LAMBDA p : BarsAt(p) # <<>>))

\* all_data once the klines of the next symbol are appended, before the
\* intermediate flush of that iteration.
NextAppended ==
    after_fetch(RunState, run.impl, RunSymbolAt(run.i + 1), BarsAt(run.i + 1)).all_data

\* C30: in collect_historical_data of collector.py the batch not yet flushed
\* holds the bars of at most 50 symbols, at the end of an iteration and
\* between the append and the flush of the next one; after the symbol at a
\* position that is a multiple of 50 it is empty; the rows handed to
\* enrichment so far, followed by the batch, are the bars fetched so far,
\* each once, and at the end of the run the batch is empty, so every fetched
\* bar was handed to enrichment exactly once.
C30_BoundedBatch ==
    run.impl = "hybrid" =>
        /\ Cardinality(SymbolsIn(run.all_data)) <= hybrid_flush_every
        /\ run.pc = "loop" => Cardinality(SymbolsIn(NextAppended)) <= hybrid_flush_every
        /\ run.i % hybrid_flush_every = 0 => run.all_data = <<>>
        /\ run.enriched \o run.all_data = FetchedBars(run.i)
        /\ run.pc = "done" => run.all_data = <<>>

\* C30 witness: a run over 51 symbols, every one with klines, at its end: 50
\* bars went to enrichment in the intermediate flush and the last one in the
\* final flush.
C30_Witness ==
    /\ run.impl = "hybrid"
    /\ run.pc = "done"
    /\ run.n = hybrid_flush_every + 1
    /\ Len(run.enriched) = hybrid_flush_every + 1
    /\ run.all_data = <<>>

====
